---- MODULE Spec2Model ----
(***************************************************************************)
(* Model of asconcepcion/my-scrappers:                                     *)
(*   ep_monitor/ep_monitor.py     multi-source monitor (discovery,         *)
(*                                notification dispatch, chunking)         *)
(*   urls_monitor/urls_monitor.py change detector over a fixed URL list    *)
(*                                                                         *)
(* Each subsystem has its own specification over the shared variable       *)
(* tuple; the variables of the other subsystems stay at their idle value.  *)
(*   SpecBOC    BOCDataSource.find_latest_page / get_urls_to_scrape        *)
(*   SpecSplit  TelegramNotifier._split_message                            *)
(*   SpecScenarioD  _split_message at full size, texts given by their      *)
(*              line lengths                                               *)
(*   SpecUrls   urls_monitor.main over a sequence of runs                  *)
(*   SpecNotify NotificationManager.send_message                           *)
(*   SpecMonitor  main, MultiSourceMonitor.run and process_source          *)
(*   SpecTelegram TelegramNotifier.send_message, chunk by chunk            *)
(*   SpecDiff   urls_monitor.calculate_diff, the size limit of its result  *)
(***************************************************************************)
EXTENDS Integers, Sequences, FiniteSets, TLC

VARIABLES
    \* ---- BOCDataSource.find_latest_page (ep_monitor.py 270-300)
    boc_pc,        \* "off" | "search" | "done" | "raised"
    year,          \* self.year
    low, high,     \* the search interval
    latest_page,   \* NoPage or the highest page confirmed so far
    probes,        \* history of probes: <<[page, exists]>>
    boc_urls,      \* result of get_urls_to_scrape
    \* ---- TelegramNotifier._split_message (ep_monitor.py 630-673)
    sp_pc,         \* "off" | "input" | "done"
    sp_text,       \* text argument (sequence of characters)
    sp_max,        \* max_length argument
    sp_chunks,     \* returned list of chunks
    \* ---- _split_message on a 9000-character text (texts as line lengths)
    sd_pc,         \* "off" | "input" | "done"
    sd_text,       \* text argument, as the lengths of its lines
    sd_chunks,     \* returned list of chunks, each as the lengths of its lines
    \* ---- urls_monitor.main (urls_monitor.py 312-512)
    um_pc,            \* "off" | "idle" (no run in progress) | "loop" | "summary"
    um_runs,          \* number of runs started
    um_clock,         \* the last timestamp a run has read from the clock
    hash_file,        \* per URL: content of hash_anterior.txt, or NoFile
    snapshots,        \* per URL: texto_descargado_<ts>.txt files, in name order
    log_file,         \* per URL: lines of cambios_detectados.log
    timestamp,        \* timestamp of the run in progress
    um_idx,           \* position of the for loop in URLS
    body,             \* email body: one message per URL processed
    changes_detected,
    change_details,
    changed_pages,
    first_time_pages,
    error_pages,
    unchanged_pages,
    um_sent,          \* notifier.send calls of the run: [notifier, subject]
    fs_ops,           \* file writes of the run: [op, url]
    um_fetched,       \* per URL: what get_content_hash_and_text returned in this run
    um_prev,          \* um_fetched and body of the previous run, hash_file and log_file
                      \* as they were when the run in progress started
    \* ---- NotificationManager.send_message (ep_monitor.py 778-795)
    nm_pc,            \* "off" | "idle" | "dispatch" | "raised"
    nm_notifiers,     \* self.notifiers, in registration order
    nm_dispatches,    \* number of send_message calls made
    nm_msg,           \* arguments of the call in progress
    nm_idx,           \* position of the for loop in self.notifiers
    nm_calls,         \* notifier.send_message calls of the dispatch: [notifier, msg, outcome]
    nm_log,           \* the "[!] Error in notifier" lines printed
    \* ---- ep_monitor.main and MultiSourceMonitor (ep_monitor.py 817-956)
    ep_pc,            \* position in main / run / process_source, "off" when idle
    env,              \* the environment variables that are set (non-empty)
    today,            \* the local calendar day, counted from a Monday
    midnights,        \* number of midnights passed since main started
    notification_manager, \* main's notification_manager: None or its notifiers
    tablon_dates,     \* fecha_inicio, fecha_fin of the TablonGobCanDataSource
    mon_idx,          \* position of run's for loop in self.sources
    sources_processed,
    sources_skipped,
    src,              \* per source: what the run has done with it so far
    ps,               \* locals of the process_source call in progress
    ep_sent,          \* notification_manager.send_message calls, in order
    exit_code,        \* << >> while main runs, then << code >>
    \* ---- TelegramNotifier.send_message (ep_monitor.py 675-724)
    tg_pc,            \* "off" | "idle" | "loop" | "returned"
    tg_args,          \* subject, message and metadata of the call
    tg_chunks,        \* chunks = self._split_message(full_message, max_length)
    tg_i,             \* i of "for i, chunk in enumerate(chunks, 1)"
    tg_trace,         \* the requests.post and time.sleep calls made, in order
    \* ---- calculate_diff (urls_monitor.py 257-282)
    df_pc,            \* "off" | "joined" | "returned"
    df_text,          \* diff_text = ''.join(diff), a sequence of characters
    df_result         \* the string calculate_diff returns

varsMonitor ==
    << ep_pc, env, today, midnights, notification_manager, tablon_dates, mon_idx,
       sources_processed, sources_skipped, src, ps, ep_sent, exit_code >>

varsTelegram == << tg_pc, tg_args, tg_chunks, tg_i, tg_trace >>

varsDiff == << df_pc, df_text, df_result >>

\* None, for the variables that otherwise hold a page number
NoPage == 0

\* ------------------------------------------------------------------------
\* BOCDataSource: binary-search discovery of the latest page
\* ------------------------------------------------------------------------

MAX_PAGE_NUMBER == 366

Years == {2025, 2026}

\* "{page:03d}" of BOC_BASE_URL: the page number as three decimal digits
Digits3(n) == << n \div 100, (n \div 10) % 10, n % 10 >>

\* BOCDataSource.get_url
get_url(y, page_number) == [site |-> "boc", year |-> y, page |-> Digits3(page_number)]

InitBOC ==
    /\ boc_pc = "search"
    /\ year \in Years
    /\ low = 1
    /\ high = MAX_PAGE_NUMBER
    /\ latest_page = NoPage
    /\ probes = << >>
    /\ boc_urls = << >>

IdleBOC ==
    /\ boc_pc = "off"
    /\ year = 0
    /\ low = 0
    /\ high = 0
    /\ latest_page = NoPage
    /\ probes = << >>
    /\ boc_urls = << >>

varsBOC == << boc_pc, year, low, high, latest_page, probes, boc_urls >>

\* the variables the discovery does not touch
outsideBOC ==
    << sp_pc, sp_text, sp_max, sp_chunks,
       sd_pc, sd_text, sd_chunks,
       um_pc, um_runs, um_clock, hash_file, snapshots, log_file,
       timestamp, um_idx, body, changes_detected, change_details,
       changed_pages, first_time_pages, error_pages, unchanged_pages,
       um_sent, fs_ops, um_fetched, um_prev,
       nm_pc, nm_notifiers, nm_dispatches, nm_msg, nm_idx, nm_calls, nm_log,
       varsMonitor, varsTelegram, varsDiff >>

\* A mutant of the loop body: the found page is not recorded when the
\* interval closes on it.
find_latest_page_step_lost(exists) ==
    /\ boc_pc = "search"
    /\ low <= high
    /\ LET mid == (low + high) \div 2 IN
         /\ probes' = Append(probes, [page |-> mid, exists |-> exists])
         /\ IF exists
              THEN /\ latest_page' = IF low = high THEN latest_page ELSE mid
                   /\ low' = mid + 1
                   /\ high' = high
              ELSE /\ high' = mid - 1
                   /\ UNCHANGED << latest_page, low >>
    /\ UNCHANGED << boc_pc, year, boc_urls >>
    /\ UNCHANGED outsideBOC

\* A mutant of the loop body: a failed probe keeps its page in the
\* interval (high = mid).
find_latest_page_step_keeps_mid(exists) ==
    /\ boc_pc = "search"
    /\ low <= high
    /\ LET mid == (low + high) \div 2 IN
         /\ probes' = Append(probes, [page |-> mid, exists |-> exists])
         /\ IF exists
              THEN /\ latest_page' = mid
                   /\ low' = mid + 1
                   /\ high' = high
              ELSE /\ high' = mid
                   /\ UNCHANGED << latest_page, low >>
    /\ UNCHANGED << boc_pc, year, boc_urls >>
    /\ UNCHANGED outsideBOC

\* One iteration of the while loop of find_latest_page: probe page mid with
\* check_page_exists (exists = the content is truthy: HTTP 200, no
\* "Page Not Found" marker, no RequestException), then move low or high.
find_latest_page_step(exists) ==
    /\ boc_pc = "search"
    /\ low <= high
    /\ LET mid == (low + high) \div 2 IN
         /\ probes' = Append(probes, [page |-> mid, exists |-> exists])
         /\ IF exists
              THEN /\ latest_page' = mid
                   /\ low' = mid + 1
                   /\ high' = high
              ELSE /\ high' = mid - 1
                   /\ UNCHANGED << latest_page, low >>
    /\ UNCHANGED << boc_pc, year, boc_urls >>
    /\ UNCHANGED outsideBOC

\* The loop has ended and find_latest_page returns; get_urls_to_scrape
\* returns the one URL of the page found.
get_urls_to_scrape_found ==
    /\ boc_pc = "search"
    /\ low > high
    /\ latest_page # NoPage
    /\ boc_urls' = << get_url(year, latest_page) >>
    /\ boc_pc' = "done"
    /\ UNCHANGED << year, low, high, latest_page, probes >>
    /\ UNCHANGED outsideBOC

\* ... or raises "Could not find latest BOC page" when no page was found.
get_urls_to_scrape_raise ==
    /\ boc_pc = "search"
    /\ low > high
    /\ latest_page = NoPage
    /\ boc_pc' = "raised"
    /\ UNCHANGED << year, low, high, latest_page, probes, boc_urls >>
    /\ UNCHANGED outsideBOC

\* ------------------------------------------------------------------------
\* TelegramNotifier._split_message
\* ------------------------------------------------------------------------

\* The characters of the modelled texts: two letters, the space and the
\* newline; texts are sequences of characters.
SP == " "
NL == "\n"
Letters == {"a", "b"}
Whitespace == {SP, NL}
Chars == Letters \cup Whitespace

MaxTextLen == 5
MaxBudget == 3

SplitTexts == UNION { [1..n -> Chars] : n \in 0..MaxTextLen }

\* index of the first occurrence of sep in s, 0 when there is none
RECURSIVE FindFrom(_, _, _)
FindFrom(s, sep, i) ==
    IF i > Len(s) THEN 0
    ELSE IF s[i] = sep THEN i
    ELSE FindFrom(s, sep, i + 1)

\* str.split(sep): the pieces between the separators, n separators giving
\* n+1 pieces (empty pieces kept)
RECURSIVE str_split(_, _)
str_split(s, sep) ==
    LET k == FindFrom(s, sep, 1) IN
      IF k = 0 THEN << s >>
      ELSE << SubSeq(s, 1, k - 1) >> \o str_split(SubSeq(s, k + 1, Len(s)), sep)

\* str.strip(): leading and trailing whitespace removed
RECURSIVE str_strip(_)
str_strip(s) ==
    IF s = << >> THEN s
    ELSE IF Head(s) \in Whitespace THEN str_strip(Tail(s))
    ELSE IF s[Len(s)] \in Whitespace THEN str_strip(SubSeq(s, 1, Len(s) - 1))
    ELSE s

\* "if current_chunk: chunks.append(current_chunk.strip())"
flush(st) ==
    IF st.current # << >> THEN Append(st.chunks, str_strip(st.current))
    ELSE st.chunks

\* A mutant of word_step: after a flush the new chunk starts empty and the
\* word that did not fit is lost.
word_step_drop(st, word, max_length) ==
    IF Len(st.current) + Len(word) + 1 <= max_length
      THEN [chunks |-> st.chunks, current |-> st.current \o word \o << SP >>]
      ELSE [chunks |-> flush(st), current |-> << >>]

\* body of "for word in words" (lines 654-660)
word_step(st, word, max_length) ==
    IF Len(st.current) + Len(word) + 1 <= max_length
      THEN [chunks |-> st.chunks, current |-> st.current \o word \o << SP >>]
      ELSE [chunks |-> flush(st), current |-> word \o << SP >>]

RECURSIVE for_words(_, _, _)
for_words(st, words, max_length) ==
    IF words = << >> THEN st
    ELSE for_words(word_step(st, Head(words), max_length), Tail(words), max_length)

\* body of "for line in lines" (lines 650-667)
line_step(st, line, max_length) ==
    IF Len(line) > max_length
      THEN for_words(st, str_split(line, SP), max_length)
    ELSE IF Len(st.current) + Len(line) + 1 > max_length
      THEN [chunks |-> flush(st), current |-> line \o << NL >>]
    ELSE [chunks |-> st.chunks, current |-> st.current \o line \o << NL >>]

RECURSIVE for_lines(_, _, _)
for_lines(st, lines, max_length) ==
    IF lines = << >> THEN st
    ELSE for_lines(line_step(st, Head(lines), max_length), Tail(lines), max_length)

\* TelegramNotifier._split_message(text, max_length)
split_message(text, max_length) ==
    IF Len(text) <= max_length THEN << text >>
    ELSE flush(for_lines([chunks |-> << >>, current |-> << >>],
                         str_split(text, NL), max_length))

varsSplit == << sp_pc, sp_text, sp_max, sp_chunks >>

\* the variables _split_message does not touch
outsideSplit ==
    << varsBOC,
       sd_pc, sd_text, sd_chunks,
       um_pc, um_runs, um_clock, hash_file, snapshots, log_file,
       timestamp, um_idx, body, changes_detected, change_details,
       changed_pages, first_time_pages, error_pages, unchanged_pages,
       um_sent, fs_ops, um_fetched, um_prev,
       nm_pc, nm_notifiers, nm_dispatches, nm_msg, nm_idx, nm_calls, nm_log,
       varsMonitor, varsTelegram, varsDiff >>

InitSplit ==
    /\ sp_pc = "input"
    /\ sp_text \in SplitTexts
    /\ sp_max \in 1..MaxBudget
    /\ sp_chunks = << >>

IdleSplit ==
    /\ sp_pc = "off"
    /\ sp_text = << >>
    /\ sp_max = 0
    /\ sp_chunks = << >>

\* the call chunks = self._split_message(full_message, max_length)
SplitCall ==
    /\ sp_pc = "input"
    /\ sp_chunks' = split_message(sp_text, sp_max)
    /\ sp_pc' = "done"
    /\ UNCHANGED << sp_text, sp_max >>
    /\ UNCHANGED outsideSplit

\* ------------------------------------------------------------------------
\* _split_message at full size (scenario D)
\*
\* A text over the letter "a" and the newline is given by the lengths of its
\* lines: << 2, 0, 3 >> is "aa\n\naaa", << 0 >> is "".  The splitter is the
\* same code, lines 646-673, computed on this form of the text.
\* ------------------------------------------------------------------------

RECURSIVE SumSeq(_)
SumSeq(t) == IF t = << >> THEN 0 ELSE Head(t) + SumSeq(Tail(t))

\* len(text): the letters and the newlines between the lines
text_len(t) == SumSeq(t) + Len(t) - 1

\* text.split('\n')
text_lines(t) == t

\* the text holds no character: current_chunk == "" (falsy)
text_empty(t) == t = << 0 >>

\* current_chunk + line + '\n'
text_add_line(t, line) ==
    SubSeq(t, 1, Len(t) - 1) \o << t[Len(t)] + line, 0 >>

\* str.strip(): leading and trailing newlines removed
RECURSIVE text_strip(_)
text_strip(t) ==
    IF Len(t) > 1 /\ Head(t) = 0 THEN text_strip(Tail(t))
    ELSE IF Len(t) > 1 /\ t[Len(t)] = 0 THEN text_strip(SubSeq(t, 1, Len(t) - 1))
    ELSE t

\* A mutant of text_flush: the chunk is appended as it stands, with the
\* newline that ends its last line.
text_flush_unstripped(st) ==
    IF ~ text_empty(st.current) THEN Append(st.chunks, st.current)
    ELSE st.chunks

\* "if current_chunk: chunks.append(current_chunk.strip())"
text_flush(st) ==
    IF ~ text_empty(st.current) THEN Append(st.chunks, text_strip(st.current))
    ELSE st.chunks

\* body of "for word in words" (lines 654-660) for a line that is one word:
\* the space that follows the word is a whitespace character as the newline
\* is (one character, removed by strip), and is written as the line's end
text_word_step(st, word, max_length) ==
    IF text_len(st.current) + word + 1 <= max_length
      THEN [chunks |-> st.chunks, current |-> text_add_line(st.current, word)]
      ELSE [chunks |-> text_flush(st), current |-> << word, 0 >>]

\* body of "for line in lines" (lines 650-667); a line longer than
\* max_length is a single word, line.split(' ') == [line]
text_line_step(st, line, max_length) ==
    IF line > max_length
      THEN text_word_step(st, line, max_length)
    ELSE IF text_len(st.current) + line + 1 > max_length
      THEN [chunks |-> text_flush(st), current |-> << line, 0 >>]
    ELSE [chunks |-> st.chunks, current |-> text_add_line(st.current, line)]

RECURSIVE text_for_lines(_, _, _)
text_for_lines(st, lines, max_length) ==
    IF lines = << >> THEN st
    ELSE text_for_lines(text_line_step(st, Head(lines), max_length),
                        Tail(lines), max_length)

\* TelegramNotifier._split_message(text, max_length)
text_split_message(t, max_length) ==
    IF text_len(t) <= max_length THEN << t >>
    ELSE text_flush(text_for_lines([chunks |-> << >>, current |-> << 0 >>],
                                   text_lines(t), max_length))

\* Scenario D: a message of 9000 characters, split with the budget that
\* TelegramNotifier.send_message passes (max_length = 4000, line 684)
ScenarioD == [length |-> 9000, max_length |-> 4000]

\* the line lengths the modelled messages are made of: an empty line, a
\* line of one letter, lines of whole thousands up to the budget, and lines
\* one and two letters short of a thousand and of the budget
ScenarioLineLengths ==
    {0, 1} \cup { k * 1000 : k \in 1..4 } \cup { k * 1000 - d : k \in {1, 4}, d \in 1..2 }

MaxScenarioLines == 5

\* the texts of k lines and of the given length
RECURSIVE TextsOf(_, _)
TextsOf(k, length) ==
    IF k = 1 THEN (IF length \in ScenarioLineLengths THEN { << length >> } ELSE {})
    ELSE UNION { { << l >> \o t : t \in TextsOf(k - 1, length - l - 1) } :
                 l \in { x \in ScenarioLineLengths : x + 1 <= length } }

ScenarioTexts ==
    UNION { TextsOf(k, ScenarioD.length) : k \in 1..MaxScenarioLines }

varsScenario == << sd_pc, sd_text, sd_chunks >>

InitScenario ==
    /\ sd_pc = "input"
    /\ sd_text \in ScenarioTexts
    /\ sd_chunks = << >>

IdleScenario ==
    /\ sd_pc = "off"
    /\ sd_text = << >>
    /\ sd_chunks = << >>

\* the call chunks = self._split_message(full_message, max_length) of
\* TelegramNotifier.send_message
ScenarioSplitCall ==
    /\ sd_pc = "input"
    /\ sd_chunks' = text_split_message(sd_text, ScenarioD.max_length)
    /\ sd_pc' = "done"
    /\ UNCHANGED sd_text
    /\ UNCHANGED << varsBOC, varsSplit,
                    um_pc, um_runs, um_clock, hash_file, snapshots, log_file,
                    timestamp, um_idx, body, changes_detected, change_details,
                    changed_pages, first_time_pages, error_pages, unchanged_pages,
                    um_sent, fs_ops, um_fetched, um_prev,
                    nm_pc, nm_notifiers, nm_dispatches, nm_msg, nm_idx, nm_calls, nm_log,
                    varsMonitor, varsTelegram, varsDiff >>

\* ------------------------------------------------------------------------
\* urls_monitor: change detection over URLS, run after run
\* ------------------------------------------------------------------------

\* URL_TITLES (zipped with URLS: a URL is identified by its position)
URL_TITLES == << "SodeteGC", "Asista", "ITCCanarias", "SCS: OPE 2016-17-18: General" >>

\* the first NumUrls entries of URLS are monitored, in at most MaxRuns runs
NumUrls == 1
MaxRuns == 2

Urls == 1..NumUrls

\* Python's None, an absent file, and the (None, None) of a failed download
None == "<None>"
NoFile == "<no file>"
FetchError == "<fetch error>"

\* the texts a download can extract
PageTexts == {"", "Hello world", "Hello brave world"}
FetchResults == PageTexts \cup {FetchError}

\* hashlib.sha256(text.encode('utf-8')).hexdigest()
sha256(text) ==
    CASE text = "" ->
           "e3b0c44298fc1c149afbf4c8996fb92427ae41e4649b934ca495991b7852b855"
      [] text = "Hello world" ->
           "64ec88ca00b268e5ba1a35678a1b5316d212f4f366b2477232534a8aeca37f3c"
      [] text = "Hello brave world" ->
           "0a92c1abb93b2105b8d9b28566ff08cd9e8199509e8ed203d205183fb864fced"

\* load_previous_hash: None when the file does not exist, else its content
\* (strip() leaves a hex digest as it is)
load_previous_hash(file) == IF file = NoFile THEN None ELSE file

\* open(downloaded_text_file, "w").write(text): the file of this timestamp
\* is created, or overwritten when a run of the same second wrote it
write_snapshot(files, ts, text) ==
    IF files # << >> /\ files[Len(files)].ts = ts
      THEN [files EXCEPT ![Len(files)] = [ts |-> ts, text |-> text]]
      ELSE Append(files, [ts |-> ts, text |-> text])

\* A mutant of load_previous_text: the last file, which is the snapshot of
\* the run itself, is loaded instead of the next-to-last.
load_previous_text_last(files, readable) ==
    IF Len(files) < 2 THEN None
    ELSE IF ~readable THEN None
    ELSE files[Len(files)].text

\* load_previous_text: the next-to-last snapshot file in name order, None
\* when there are fewer than two files or the file cannot be read
load_previous_text(files, readable) ==
    IF Len(files) < 2 THEN None
    ELSE IF ~readable THEN None
    ELSE files[Len(files) - 1].text

\* calculate_diff: empty when the two texts have the same lines, else the
\* unified diff from old_text to new_text under the two file headers
calculate_diff(old_text, new_text, url_title) ==
    IF old_text = new_text THEN << >>
    ELSE << [fromfile |-> << url_title, "_anterior" >>,
             tofile |-> << url_title, "_actual" >>,
             old |-> old_text, new |-> new_text] >>

\* the places of one loop iteration where a file operation can raise
ExcPoints == {"none", "makedirs", "write_snapshot", "load_hash", "log_change", "save_hash"}

\* A mutant of Branch: the "previous_hash is None" case is lost, a first
\* download compares unequal to the missing hash and counts as a change.
Branch_no_first(fetch, previous_hash) ==
    IF fetch = FetchError THEN "fetch_error"
    ELSE IF fetch = "" THEN "empty"
    ELSE IF sha256(fetch) # previous_hash THEN "changed"
    ELSE "unchanged"

\* A mutant of Branch: the comparison with the stored hash is lost, every
\* download with a stored hash counts as a change.
Branch_always_changed(fetch, previous_hash) ==
    IF fetch = FetchError THEN "fetch_error"
    ELSE IF fetch = "" THEN "empty"
    ELSE IF previous_hash = None THEN "first"
    ELSE "changed"

\* the branch of the if/elif chain (lines 365-409) an iteration takes
Branch(fetch, previous_hash) ==
    IF fetch = FetchError THEN "fetch_error"
    ELSE IF fetch = "" THEN "empty"
    ELSE IF previous_hash = None THEN "first"
    ELSE IF sha256(fetch) # previous_hash THEN "changed"
    ELSE "unchanged"

\* A mutant of RecordsError: the empty-content branch forgets its
\* error_pages.append.
RecordsError_not_empty(branch) == branch = "fetch_error"

\* the branches that append the title to error_pages (lines 371, 378)
RecordsError(branch) == branch \in {"fetch_error", "empty"}

\* the message an iteration appends to body
BodyMessage(branch) ==
    CASE branch = "fetch_error" -> "Error al descargar contenido"
      [] branch = "empty" -> "La pagina descargada no tiene ningun contenido"
      [] branch = "first" -> "Primera ejecucion, guardando estado actual."
      [] branch = "changed" -> "Se ha detectado un cambio en la pagina!"
      [] branch = "unchanged" -> "Sin cambios detectados."

\* whether the iteration raises at the chosen exception point
Raises(exc, branch) ==
    \/ exc = "makedirs"
    \/ exc \in {"write_snapshot", "load_hash"} /\ branch # "fetch_error"
    \/ exc = "log_change" /\ branch = "changed"
    \/ exc = "save_hash" /\ branch \in {"first", "changed"}

\* A mutant of SnapshotWritten: the snapshot is written only when the
\* content is new.
SnapshotWritten_if_new(exc, branch) ==
    branch \in {"first", "changed"} /\ exc \notin {"makedirs", "write_snapshot"}

\* A mutant of SnapshotWritten: the snapshot file is written whatever the
\* download returned.
SnapshotWritten_on_error(exc, branch) ==
    exc \notin {"makedirs", "write_snapshot"}

\* the snapshot file of the run has been written (lines 365-367)
SnapshotWritten(exc, branch) ==
    branch # "fetch_error" /\ exc \notin {"makedirs", "write_snapshot"}

\* log_change has run
LogWritten(exc, branch) ==
    branch = "changed" /\ exc \notin {"makedirs", "write_snapshot", "load_hash", "log_change"}

\* A mutant of HashWritten: save_current_hash also runs on the unchanged
\* branch.
HashWritten_unchanged_too(exc, branch) ==
    branch \in {"first", "changed", "unchanged"} /\ ~Raises(exc, branch)

\* save_current_hash has run
HashWritten(exc, branch) ==
    branch \in {"first", "changed"} /\ ~Raises(exc, branch)

\* A mutant of notify_all: the email notifier is left out.
notify_all_no_email(sent, subject) ==
    sent \o << [notifier |-> "console", subject |-> subject],
               [notifier |-> "telegram", subject |-> subject] >>

\* notify_all(notifiers, subject, message)
notify_all(sent, subject) ==
    sent \o << [notifier |-> "console", subject |-> subject],
               [notifier |-> "telegram", subject |-> subject],
               [notifier |-> "email", subject |-> subject] >>

\* console_notifier.send(...); telegram_notifier.send(...)
send_console_telegram(sent, subject) ==
    sent \o << [notifier |-> "console", subject |-> subject],
               [notifier |-> "telegram", subject |-> subject] >>

varsUrls == << um_pc, um_runs, um_clock, hash_file, snapshots, log_file,
               timestamp, um_idx, body, changes_detected, change_details,
               changed_pages, first_time_pages, error_pages, unchanged_pages,
               um_sent, fs_ops, um_fetched, um_prev >>

\* the variables urls_monitor does not touch
outsideUrls ==
    << varsBOC, varsSplit, varsScenario,
       nm_pc, nm_notifiers, nm_dispatches, nm_msg, nm_idx, nm_calls, nm_log,
       varsMonitor, varsTelegram, varsDiff >>

NotFetched == [u \in Urls |-> None]

InitUrls ==
    /\ um_pc = "idle"
    /\ um_runs = 0
    /\ um_clock = 0
    /\ hash_file = [u \in Urls |-> NoFile]
    /\ snapshots = [u \in Urls |-> << >>]
    /\ log_file = [u \in Urls |-> << >>]
    /\ timestamp = 0
    /\ um_idx = 0
    /\ body = << >>
    /\ changes_detected = FALSE
    /\ change_details = << >>
    /\ changed_pages = << >>
    /\ first_time_pages = << >>
    /\ error_pages = << >>
    /\ unchanged_pages = 0
    /\ um_sent = << >>
    /\ fs_ops = << >>
    /\ um_fetched = NotFetched
    /\ um_prev = [fetched |-> NotFetched, body |-> << >>,
                  hash_file |-> [u \in Urls |-> NoFile],
                  log_file |-> [u \in Urls |-> << >>]]

IdleUrls ==
    /\ um_pc = "off"
    /\ um_runs = 0
    /\ um_clock = 0
    /\ hash_file = << >>
    /\ snapshots = << >>
    /\ log_file = << >>
    /\ timestamp = 0
    /\ um_idx = 0
    /\ body = << >>
    /\ changes_detected = FALSE
    /\ change_details = << >>
    /\ changed_pages = << >>
    /\ first_time_pages = << >>
    /\ error_pages = << >>
    /\ unchanged_pages = 0
    /\ um_sent = << >>
    /\ fs_ops = << >>
    /\ um_fetched = << >>
    /\ um_prev = << >>

\* main up to the for loop (lines 327-348): the run reads its timestamp
\* (the clock has moved on, or is still in the second of the last run),
\* sends the start notification and initialises its locals.
StartRun ==
    /\ um_pc = "idle"
    /\ um_runs < MaxRuns
    /\ um_runs' = um_runs + 1
    /\ \E now \in {um_clock, um_clock + 1} :
         /\ now >= 1
         /\ timestamp' = now
         /\ um_clock' = now
    /\ um_sent' = send_console_telegram(<< >>, "Inicio de monitorizacion")
    /\ um_prev' = [fetched |-> um_fetched, body |-> body,
                   hash_file |-> hash_file, log_file |-> log_file]
    /\ um_fetched' = NotFetched
    /\ body' = << >>
    /\ changes_detected' = FALSE
    /\ change_details' = << >>
    /\ changed_pages' = << >>
    /\ first_time_pages' = << >>
    /\ error_pages' = << >>
    /\ unchanged_pages' = 0
    /\ fs_ops' = << >>
    /\ um_idx' = 1
    /\ um_pc' = "loop"
    /\ UNCHANGED << hash_file, snapshots, log_file >>
    /\ UNCHANGED outsideUrls

\* One iteration of "for url, url_title in zip(URLS, URL_TITLES)" (lines
\* 350-411).  fetch is what get_content_hash_and_text returns, exc the file
\* operation that raises (if any), readable whether load_previous_text can
\* read the file it picks.  An exception leaves the loop for the handler of
\* lines 506-512, which notifies all notifiers and ends main.
ProcessUrl(fetch, exc, readable) ==
    /\ um_pc = "loop"
    /\ um_idx <= NumUrls
    /\ LET u == um_idx
           url_title == URL_TITLES[u]
           text == fetch
           previous_hash == load_previous_hash(hash_file[u])
           branch == Branch(fetch, previous_hash)
           raised == Raises(exc, branch)
           files == IF SnapshotWritten(exc, branch)
                      THEN write_snapshot(snapshots[u], timestamp, text)
                      ELSE snapshots[u]
           previous_text == load_previous_text(files, readable)
           diff == calculate_diff(previous_text, text, url_title)
           ops == (IF SnapshotWritten(exc, branch)
                     THEN << [op |-> "write_snapshot", url |-> u] >> ELSE << >>)
                  \o (IF LogWritten(exc, branch)
                     THEN << [op |-> "append_log", url |-> u] >> ELSE << >>)
                  \o (IF HashWritten(exc, branch)
                     THEN << [op |-> "write_hash", url |-> u] >> ELSE << >>)
       IN
         /\ snapshots' = [snapshots EXCEPT ![u] = files]
         /\ log_file' = IF LogWritten(exc, branch)
                          THEN [log_file EXCEPT ![u] = Append(@, [ts |-> um_clock, url |-> u])]
                          ELSE log_file
         /\ hash_file' = IF HashWritten(exc, branch)
                           THEN [hash_file EXCEPT ![u] = sha256(text)]
                           ELSE hash_file
         /\ fs_ops' = fs_ops \o ops
         /\ um_fetched' = [um_fetched EXCEPT ![u] = fetch]
         /\ IF raised
              THEN /\ um_sent' = notify_all(um_sent, "Error detector de cambios url")
                   /\ um_pc' = "idle"
                   /\ UNCHANGED << um_idx, body, changes_detected, change_details,
                                   changed_pages, first_time_pages, error_pages,
                                   unchanged_pages >>
              ELSE /\ body' = Append(body, [title |-> url_title, msg |-> BodyMessage(branch)])
                   /\ error_pages' = IF RecordsError(branch)
                                       THEN Append(error_pages, url_title)
                                       ELSE error_pages
                   /\ first_time_pages' = IF branch = "first"
                                            THEN Append(first_time_pages, url_title)
                                            ELSE first_time_pages
                   /\ changed_pages' = IF branch = "changed"
                                         THEN Append(changed_pages, url_title)
                                         ELSE changed_pages
                   /\ changes_detected' = (changes_detected \/ branch = "changed")
                   /\ unchanged_pages' = IF branch = "unchanged"
                                           THEN unchanged_pages + 1
                                           ELSE unchanged_pages
                   /\ change_details' =
                        IF branch # "changed" THEN change_details
                        ELSE IF previous_text \in {None, ""}
                          THEN Append(change_details,
                                      [title |-> url_title, url |-> u,
                                       detail |-> "(No se pudo calcular diff)", diff |-> << >>])
                        ELSE IF diff # << >>
                          THEN Append(change_details,
                                      [title |-> url_title, url |-> u,
                                       detail |-> "DIFF", diff |-> diff])
                        ELSE change_details
                   /\ um_sent' = IF branch = "first"
                                   THEN send_console_telegram(um_sent, "Primera monitorizacion")
                                   ELSE um_sent
                   /\ um_idx' = um_idx + 1
                   /\ um_pc' = IF um_idx = NumUrls THEN "summary" ELSE "loop"
    /\ UNCHANGED << um_runs, um_clock, timestamp, um_prev >>
    /\ UNCHANGED outsideUrls

\* main after the loop (lines 413-504): the summary goes to console and
\* chat, under a subject that tells whether changes were detected, and then
\* to email; main returns.
Summary ==
    /\ um_pc = "summary"
    /\ um_sent' = Append(send_console_telegram(um_sent,
                             IF changes_detected THEN "CAMBIOS DETECTADOS"
                             ELSE "Monitorizacion completada - Sin cambios"),
                         [notifier |-> "email",
                          subject |-> "AUTOMATIZACION EP: detector de cambios url"])
    /\ um_pc' = "idle"
    /\ UNCHANGED << um_runs, um_clock, hash_file, snapshots, log_file, timestamp,
                    um_idx, body, changes_detected, change_details, changed_pages,
                    first_time_pages, error_pages, unchanged_pages, fs_ops,
                    um_fetched, um_prev >>
    /\ UNCHANGED outsideUrls

\* ------------------------------------------------------------------------
\* NotificationManager: fan-out of one message to the registered notifiers
\* ------------------------------------------------------------------------

MaxDispatches == 2

\* the managers main builds: console, chat and email (lines 902-907), or
\* console and chat only when it reports a critical error (lines 941-945)
Registrations == { << "ConsoleNotifier", "TelegramNotifier", "EmailNotifier" >>,
                   << "ConsoleNotifier", "TelegramNotifier" >> }

\* the messages dispatched: a source's analysis with its metadata, or an
\* error report without metadata
Messages == { [subject |-> "AUTOMATIZACION EP: BOC", message |-> "analysis",
               metadata |-> "source: BOC"],
              [subject |-> "AUTOMATIZACION EP: Error BOC", message |-> "error_msg",
               metadata |-> "None"] }

\* what a notifier.send_message call can do, as seen by the manager:
\* return, or raise an Exception
NotifierOutcomes == {"ok", "raise"}

varsNotify == << nm_pc, nm_notifiers, nm_dispatches, nm_msg, nm_idx, nm_calls, nm_log >>

\* the variables the manager does not touch
outsideNotify ==
    << varsBOC, varsSplit, varsScenario, varsUrls, varsMonitor, varsTelegram, varsDiff >>

NoMessage == [subject |-> "", message |-> "", metadata |-> "None"]

InitNotify ==
    /\ nm_pc = "idle"
    /\ nm_notifiers \in Registrations
    /\ nm_dispatches = 0
    /\ nm_msg = NoMessage
    /\ nm_idx = 0
    /\ nm_calls = << >>
    /\ nm_log = << >>

IdleNotify ==
    /\ nm_pc = "off"
    /\ nm_notifiers = << >>
    /\ nm_dispatches = 0
    /\ nm_msg = NoMessage
    /\ nm_idx = 0
    /\ nm_calls = << >>
    /\ nm_log = << >>

\* a caller enters NotificationManager.send_message(subject, message, metadata)
send_message_call(msg) ==
    /\ nm_pc = "idle"
    /\ nm_dispatches < MaxDispatches
    /\ nm_dispatches' = nm_dispatches + 1
    /\ nm_msg' = msg
    /\ nm_idx' = 1
    /\ nm_calls' = << >>
    /\ nm_log' = << >>
    /\ nm_pc' = "dispatch"
    /\ UNCHANGED nm_notifiers
    /\ UNCHANGED outsideNotify

\* A mutant of the loop body: no try/except, an exception of a notifier
\* leaves the loop and reaches the caller.
send_message_notify_uncaught(outcome) ==
    /\ nm_pc = "dispatch"
    /\ nm_idx <= Len(nm_notifiers)
    /\ nm_calls' = Append(nm_calls, [notifier |-> nm_notifiers[nm_idx],
                                     msg |-> nm_msg, outcome |-> outcome])
    /\ IF outcome = "raise"
         THEN /\ nm_pc' = "raised"
              /\ UNCHANGED nm_idx
         ELSE /\ nm_idx' = nm_idx + 1
              /\ UNCHANGED nm_pc
    /\ UNCHANGED << nm_notifiers, nm_dispatches, nm_msg, nm_log >>
    /\ UNCHANGED outsideNotify

\* One iteration of "for notifier in self.notifiers" (lines 791-795): the
\* notifier is called; an Exception it raises is caught and printed, and the
\* loop goes on.
send_message_notify(outcome) ==
    /\ nm_pc = "dispatch"
    /\ nm_idx <= Len(nm_notifiers)
    /\ nm_calls' = Append(nm_calls, [notifier |-> nm_notifiers[nm_idx],
                                     msg |-> nm_msg, outcome |-> outcome])
    /\ nm_log' = IF outcome = "raise"
                   THEN Append(nm_log, << "[!] Error in notifier", nm_notifiers[nm_idx] >>)
                   ELSE nm_log
    /\ nm_idx' = nm_idx + 1
    /\ UNCHANGED << nm_pc, nm_notifiers, nm_dispatches, nm_msg >>
    /\ UNCHANGED outsideNotify

\* the loop is over: send_message returns None to its caller
send_message_return ==
    /\ nm_pc = "dispatch"
    /\ nm_idx > Len(nm_notifiers)
    /\ nm_pc' = "idle"
    /\ UNCHANGED << nm_notifiers, nm_dispatches, nm_msg, nm_idx, nm_calls, nm_log >>
    /\ UNCHANGED outsideNotify

\* ------------------------------------------------------------------------
\* ep_monitor.main: configuration, MultiSourceMonitor.run, process_source
\* ------------------------------------------------------------------------

MaxMidnights == 1
MaxPages == 2
MaxMixed == 1

\* the variables Config.from_environment reads
MandatoryVars == {"TELEGRAM_BOT_TOKEN", "TELEGRAM_CHAT_ID", "AI_API_KEY"}
EmailVars == {"SMTP_SERVER", "SMTP_PORT", "EMAIL_FROM", "EMAIL_TO", "EMAIL_PASSWORD"}

\* the environments main is started in: any of the mandatory variables set
\* or not; the email variables all set, or all but the password
Environments ==
    { m \cup e : m \in SUBSET MandatoryVars,
                 e \in {EmailVars, EmailVars \ {"EMAIL_PASSWORD"}} }

\* Config.from_environment returns (True) or raises ValueError (False):
\* "if not all([telegram_token, telegram_chat, ai_key]): raise"
from_environment(e) == MandatoryVars \subseteq e

\* A mutant of is_configured: any() in the place of all().
is_configured_any(e) == EmailVars \cap e # {}

\* EmailNotifier.__init__: self.is_configured
is_configured(e) == EmailVars \subseteq e

\* datetime.now().weekday() on the given day: 0 = Monday .. 6 = Sunday
weekday(day) == day % 7

\* strftime('%Y-%m-%d') of the given day; day 0 is Monday 2 November 2026
strftime(day) == [Y |-> 2026, m |-> 11, d |-> 2 + day]

\* monitor.sources, in the order main adds them (lines 917-924)
Sources ==
    << [name |-> "BOC", kind |-> "BOC", base_url |-> "boc"],
       [name |-> "Tablón GobCan", kind |-> "Tablon", base_url |-> "tablon_anuncios"],
       [name |-> "BOP Las Palmas", kind |-> "BOP", base_url |-> "boplaspalmas.net/nbop2"],
       [name |-> "BOP Santa Cruz", kind |-> "BOP", base_url |-> "bopsantacruzdetenerife.es/bopsc2"] >>

\* A mutant of should_run_today: the weekend starts a day late for BOC.
should_run_today_le(kind, wd) ==
    CASE kind = "BOC" -> wd <= 5
      [] kind = "Tablon" -> TRUE
      [] kind = "BOP" -> wd = 6

\* should_run_today of BOCDataSource (230-243), TablonGobCanDataSource
\* (339-346) and BOPDataSource (427-441), on weekday wd
should_run_today(kind, wd) ==
    CASE kind = "BOC" -> wd < 5
      [] kind = "Tablon" -> TRUE
      [] kind = "BOP" -> wd = 6

\* ---- discovery: get_urls_to_scrape of the three kinds of source

\* what BOCDataSource.find_latest_page can return: None, the first page or
\* the last one (SpecBOC models the search itself)
BOCLatest == {NoPage, 1, MAX_PAGE_NUMBER}

\* what fetch_page_html can return for the first page of the Tablón: ''
\* (the fetch failed), markup without the token 'pages:<digits>', markup
\* with the token and its number
TablonMarkups ==
    { [markup |-> FALSE, token |-> FALSE, pages |-> 0],
      [markup |-> TRUE, token |-> FALSE, pages |-> 0] }
    \cup { [markup |-> TRUE, token |-> TRUE, pages |-> c] : c \in 0..MaxPages }

\* A mutant of _get_num_pages: no page when the token is missing.
_get_num_pages_zero(html) == IF html.token THEN html.pages ELSE 0

\* TablonGobCanDataSource._get_num_pages:
\* "return int(match.group(1)) if match else 1"
_get_num_pages(html) == IF html.token THEN html.pages ELSE 1

\* TablonGobCanDataSource._get_date_range, on the day of the call
_get_date_range(day, days_back) ==
    [fecha_inicio |-> strftime(day - days_back), fecha_fin |-> strftime(day)]

\* the URL of page number page of the Tablón search (lines 381-384)
tablon_url(dates, page) ==
    [site |-> "tablon_anuncios", fh |-> dates.fecha_fin,
     fd |-> dates.fecha_inicio, page |-> page]

\* A mutant of Tablon_urls: range(1, num_pages) in the place of
\* range(1, num_pages + 1), the last page is left out.
Tablon_urls_short(html, dates) ==
    IF ~ html.markup
      THEN [raised |-> "Could not fetch first page from Tablón", urls |-> << >>]
    ELSE [raised |-> "",
          urls |-> [page \in 1..(_get_num_pages(html) - 1) |-> tablon_url(dates, page)]]

\* TablonGobCanDataSource.get_urls_to_scrape, given the markup fetched:
\* the list of URLs, or the exception raised
Tablon_urls(html, dates) ==
    IF ~ html.markup
      THEN [raised |-> "Could not fetch first page from Tablón", urls |-> << >>]
    ELSE [raised |-> "",
          urls |-> [page \in 1.._get_num_pages(html) |-> tablon_url(dates, page)]]

\* BOCDataSource.get_urls_to_scrape, given what find_latest_page returned
BOC_urls(latest, y) ==
    IF latest = NoPage THEN [raised |-> "Could not find latest BOC page", urls |-> << >>]
    ELSE [raised |-> "", urls |-> << get_url(y, latest) >>]

\* A mutant of _get_monday_wednesday_friday_dates: the week is made to
\* start on the day of the call.
_get_monday_wednesday_friday_dates_today(day) ==
    << strftime(day + 0), strftime(day + 2), strftime(day + 4) >>

\* BOPDataSource._get_monday_wednesday_friday_dates, on the day of the call
_get_monday_wednesday_friday_dates(day) ==
    LET inicio_semana == day - weekday(day) IN
      << strftime(inicio_semana + 0), strftime(inicio_semana + 2),
         strftime(inicio_semana + 4) >>

BOPDocuments == << "sumario.php", "sumario1.php", "sumario2.php" >>

\* BOPDataSource.get_urls_to_scrape: for each date the three documents
BOP_urls(base_url, day) ==
    LET fechas == _get_monday_wednesday_friday_dates(day) IN
      [raised |-> "",
       urls |-> [i \in 1..9 |->
                   [site |-> base_url,
                    doc |-> BOPDocuments[((i - 1) % 3) + 1],
                    fecha_mas_reciente |-> fechas[((i - 1) \div 3) + 1]]]]

\* ---- extract_content (302-311, 389-398, 480-497)

\* the text fetch_page_text returns for the i-th URL when the fetch works,
\* a string of one character; '' is the empty sequence
PageToken == << "p1", "p2", "p3", "p4", "p5", "p6", "p7", "p8", "p9" >>

\* the outcomes of the fetches of n URLs (TRUE: text came back): the
\* fetches that fail, or else those that work, are at most MaxMixed
FetchPatterns(n) ==
    { got \in [1..n -> BOOLEAN] :
        \/ Cardinality({ i \in 1..n : got[i] }) <= MaxMixed
        \/ Cardinality({ i \in 1..n : ~ got[i] }) <= MaxMixed }

\* the texts kept by "if text: texts.append(text)"
RECURSIVE non_empty(_)
non_empty(texts) ==
    IF texts = << >> THEN << >>
    ELSE IF Head(texts) # << >> THEN << Head(texts) >> \o non_empty(Tail(texts))
    ELSE non_empty(Tail(texts))

\* '\n\n'.join(texts)
RECURSIVE join(_)
join(texts) ==
    IF texts = << >> THEN << >>
    ELSE IF Len(texts) = 1 THEN Head(texts)
    ELSE Head(texts) \o << "\n\n" >> \o join(Tail(texts))

\* A mutant of extract_content: every text is kept, the empty ones too.
extract_content_all(fetched) == join(fetched)

\* extract_content, given the text fetched from each URL
extract_content(fetched) == join(non_empty(fetched))

\* A mutant of no_content: the check is missing.
no_content_never(content) == FALSE

\* "if not content" (line 835)
no_content(content) == content = << >>

\* ---- the notification manager of main

\* the lines a notifier prints while it is constructed: the __init__ of
\* lines 606-610 (Telegram) and 730-742 (Email) print nothing, whether the
\* credentials are there or not
init_log(class, configured) == << >>

\* the line EmailNotifier.send_message prints before it returns when it is
\* not configured (line 747)
SkipLine == "[!] Email notifier not configured, skipping..."

\* notification_manager = None
NoManager == [built |-> FALSE, notifiers |-> << >>]

\* the manager of lines 902-907: ConsoleNotifier, TelegramNotifier and
\* EmailNotifier, the last one configured or not
full_manager(e) ==
    [built |-> TRUE,
     notifiers |-> << [class |-> "ConsoleNotifier", is_configured |-> TRUE,
                       init_log |-> init_log("ConsoleNotifier", TRUE)],
                      [class |-> "TelegramNotifier", is_configured |-> TRUE,
                       init_log |-> init_log("TelegramNotifier", TRUE)],
                      [class |-> "EmailNotifier", is_configured |-> is_configured(e),
                       init_log |-> init_log("EmailNotifier", is_configured(e))] >>]

\* the minimal manager of lines 941-945
minimal_manager ==
    [built |-> TRUE,
     notifiers |-> << [class |-> "ConsoleNotifier", is_configured |-> TRUE,
                       init_log |-> init_log("ConsoleNotifier", TRUE)],
                      [class |-> "TelegramNotifier", is_configured |-> TRUE,
                       init_log |-> init_log("TelegramNotifier", TRUE)] >>]

SubjectPrefix == "AUTOMATIZACIÓN EP:"

\* the subjects of lines 849, 859 and 948, word by word
content_subject(name) == << SubjectPrefix, name >>
error_subject(name) == << SubjectPrefix, "Error", name >>
critical_subject == << SubjectPrefix, "CRITICAL ERROR" >>

\* NotificationManager.send_message: every registered notifier is called,
\* in order; an EmailNotifier that is not configured prints SkipLine and
\* returns at once (lines 746-748).  The call is appended to the calls
\* made so far, with the lines the skipping notifiers printed.
manager_send_message(sent, nm, subject, message, metadata) ==
    Append(sent,
           [subject |-> subject, message |-> message, metadata |-> metadata,
            notifiers |-> [i \in 1..Len(nm.notifiers) |-> nm.notifiers[i].class],
            transported |-> { nm.notifiers[i].class : i \in
                              { j \in 1..Len(nm.notifiers) : nm.notifiers[j].is_configured } },
            skip_log |-> [i \in 1..Len(nm.notifiers) |->
                            IF nm.notifiers[i].is_configured
                            THEN << >> ELSE << SkipLine >>]])

\* ---- state of a run

\* a source the run has not reached yet.  run_check and ps_check: what
\* should_run_today answered in run and in process_source; discovery,
\* extraction, analyzed: get_urls_to_scrape, extract_content and the
\* analyzer were called; any_text: a fetch returned text; cause: the
\* exception that ended process_source
Pending ==
    [status |-> "Pending", counted |-> "none", run_check |-> << >>,
     ps_check |-> << >>, discovery |-> FALSE, extraction |-> FALSE,
     any_text |-> FALSE, analyzed |-> FALSE, cause |-> "none"]

\* no process_source call in progress
NoCall ==
    [source |-> 0, html |-> << >>, urls |-> << >>, fetched |-> << >>,
     content |-> << >>]

InitMonitor ==
    /\ ep_pc = "start"
    /\ env \in Environments
    /\ today \in 0..6
    /\ midnights = 0
    /\ notification_manager = NoManager
    /\ tablon_dates = << >>
    /\ mon_idx = 0
    /\ sources_processed = 0
    /\ sources_skipped = 0
    /\ src = [i \in 1..Len(Sources) |-> Pending]
    /\ ps = NoCall
    /\ ep_sent = << >>
    /\ exit_code = << >>

IdleMonitor ==
    /\ ep_pc = "off"
    /\ env = {}
    /\ today = 0
    /\ midnights = 0
    /\ notification_manager = NoManager
    /\ tablon_dates = << >>
    /\ mon_idx = 0
    /\ sources_processed = 0
    /\ sources_skipped = 0
    /\ src = << >>
    /\ ps = NoCall
    /\ ep_sent = << >>
    /\ exit_code = << >>

\* the variables ep_monitor.main does not touch
outsideMonitor ==
    << varsBOC, varsSplit, varsScenario, varsUrls, varsNotify, varsTelegram, varsDiff >>

\* the clock passes midnight while main runs (a midnight that passes while
\* the pages of a source are fetched and analyzed is seen by the code at
\* its next reading of the clock, after the call has returned)
Midnight ==
    /\ ep_pc \in {"start", "init", "loop", "check", "discover"}
    /\ midnights < MaxMidnights
    /\ today' = today + 1
    /\ midnights' = midnights + 1
    /\ UNCHANGED << ep_pc, env, notification_manager, tablon_dates, mon_idx,
                    sources_processed, sources_skipped, src, ps, ep_sent, exit_code >>
    /\ UNCHANGED outsideMonitor

\* main, lines 899-907: the configuration is loaded and the manager built
\* with its three notifiers, or from_environment raises
main_from_environment ==
    /\ ep_pc = "start"
    /\ IF from_environment(env)
         THEN /\ notification_manager' = full_manager(env)
              /\ ep_pc' = "init"
         ELSE /\ notification_manager' = notification_manager
              /\ ep_pc' = "except"
    /\ UNCHANGED << env, today, midnights, tablon_dates, mon_idx,
                    sources_processed, sources_skipped, src, ps, ep_sent, exit_code >>
    /\ UNCHANGED outsideMonitor

\* main, lines 910-927 and run, lines 866-876: the analyzer is built (or
\* its construction raises), then the monitor and its four sources, and
\* run starts its loop
main_init(analyzer) ==
    /\ ep_pc = "init"
    /\ IF analyzer = "ok"
         THEN /\ tablon_dates' = _get_date_range(today, 0)
              /\ mon_idx' = 1
              /\ ep_pc' = "loop"
         ELSE /\ UNCHANGED << tablon_dates, mon_idx >>
              /\ ep_pc' = "except"
    /\ UNCHANGED << env, today, midnights, notification_manager,
                    sources_processed, sources_skipped, src, ps, ep_sent, exit_code >>
    /\ UNCHANGED outsideMonitor

\* ---- MultiSourceMonitor.run and process_source

\* the source run's loop is at
source == Sources[mon_idx]

\* what should_run_today answers now, with the weekday it read
schedule_check ==
    [wd |-> weekday(today), ok |-> should_run_today(source.kind, weekday(today))]

\* run, lines 878-884, up to the call of process_source: the schedule rule
\* is evaluated; a source that is not scheduled is counted as skipped
run_should_run_today ==
    /\ ep_pc = "loop"
    /\ mon_idx \in 1..Len(Sources)
    /\ IF schedule_check.ok
         THEN /\ src' = [src EXCEPT ![mon_idx].run_check = << schedule_check >>]
              /\ ep_pc' = "check"
              /\ UNCHANGED << mon_idx, sources_skipped >>
         ELSE /\ src' = [src EXCEPT ![mon_idx] =
                           [@ EXCEPT !.run_check = << schedule_check >>,
                                     !.status = "Skipped", !.counted = "skipped"]]
              /\ sources_skipped' = sources_skipped + 1
              /\ mon_idx' = mon_idx + 1
              /\ ep_pc' = "loop"
    /\ UNCHANGED << env, today, midnights, notification_manager, tablon_dates,
                    sources_processed, ps, ep_sent, exit_code >>
    /\ UNCHANGED outsideMonitor

\* A mutant of process_source_returns: the loop leaves out the source that
\* follows.
process_source_returns_skips_one ==
    /\ sources_processed' = sources_processed + 1
    /\ mon_idx' = mon_idx + 2
    /\ ps' = NoCall
    /\ ep_pc' = "loop"

\* A mutant of process_source_returns: the source is not counted.
process_source_returns_uncounted ==
    /\ sources_processed' = sources_processed
    /\ mon_idx' = mon_idx + 1
    /\ ps' = NoCall
    /\ ep_pc' = "loop"

\* process_source has returned: "sources_processed += 1" and the loop moves
\* on (lines 881, 884)
process_source_returns ==
    /\ sources_processed' = sources_processed + 1
    /\ mon_idx' = mon_idx + 1
    /\ ps' = NoCall
    /\ ep_pc' = "loop"

\* process_source, lines 819-827: the schedule rule is evaluated again; the
\* call returns at once when it answers no
process_source_should_run_today ==
    /\ ep_pc = "check"
    /\ IF schedule_check.ok
         THEN /\ src' = [src EXCEPT ![mon_idx] =
                           [@ EXCEPT !.ps_check = << schedule_check >>,
                                     !.status = "Running"]]
              /\ ps' = [NoCall EXCEPT !.source = mon_idx]
              /\ ep_pc' = "discover"
              /\ UNCHANGED << mon_idx, sources_processed >>
         ELSE /\ src' = [src EXCEPT ![mon_idx] =
                           [@ EXCEPT !.ps_check = << schedule_check >>,
                                     !.status = "Skipped", !.counted = "processed"]]
              /\ process_source_returns
    /\ UNCHANGED << env, today, midnights, notification_manager, tablon_dates,
                    sources_skipped, ep_sent, exit_code >>
    /\ UNCHANGED outsideMonitor

\* A mutant of error_notification: the failure is printed only.
error_notification_none(sent, nm, name) == sent

\* lines 858-860: the error notification of a failed source
error_notification(sent, nm, name) ==
    manager_send_message(sent, nm, error_subject(name), "error_msg", FALSE)

\* process_source, lines 854-862: an exception raised in the try block ends
\* the call; r is the record of the source at the raise
process_source_except(r, cause) ==
    /\ ep_sent' = error_notification(ep_sent, notification_manager, source.name)
    /\ src' = [src EXCEPT ![mon_idx] =
                 [r EXCEPT !.status = "Failed", !.counted = "processed",
                           !.cause = cause]]
    /\ process_source_returns

\* process_source, line 830, given the list of URLs get_urls_to_scrape
\* returned or the exception it raised, and the markup it fetched
process_source_get_urls(d, html) ==
    LET r == [src[mon_idx] EXCEPT !.discovery = TRUE] IN
      IF d.raised # ""
        THEN process_source_except(r, d.raised)
        ELSE /\ ps' = [ps EXCEPT !.urls = d.urls, !.html = html]
             /\ src' = [src EXCEPT ![mon_idx] = r]
             /\ ep_pc' = "extract"
             /\ UNCHANGED << mon_idx, sources_processed, ep_sent >>

\* discovery of the BOC source (lines 294-300)
BOC_get_urls_to_scrape(latest) ==
    /\ ep_pc = "discover"
    /\ source.kind = "BOC"
    /\ process_source_get_urls(BOC_urls(latest, strftime(today).Y), << >>)
    /\ UNCHANGED << env, today, midnights, notification_manager, tablon_dates,
                    sources_skipped, exit_code >>
    /\ UNCHANGED outsideMonitor

\* discovery of the Tablón source (lines 360-387)
Tablon_get_urls_to_scrape(html) ==
    /\ ep_pc = "discover"
    /\ source.kind = "Tablon"
    /\ process_source_get_urls(Tablon_urls(html, tablon_dates), << html >>)
    /\ UNCHANGED << env, today, midnights, notification_manager, tablon_dates,
                    sources_skipped, exit_code >>
    /\ UNCHANGED outsideMonitor

\* discovery of a BOP source (lines 459-478)
BOP_get_urls_to_scrape ==
    /\ ep_pc = "discover"
    /\ source.kind = "BOP"
    /\ process_source_get_urls(BOP_urls(source.base_url, today), << >>)
    /\ UNCHANGED << env, today, midnights, notification_manager, tablon_dates,
                    sources_skipped, exit_code >>
    /\ UNCHANGED outsideMonitor

\* process_source, lines 834-836: every URL is fetched (got[i]: the fetch of
\* the i-th URL returns text) and the texts are combined
process_source_extract_content ==
    /\ ep_pc = "extract"
    /\ \E got \in FetchPatterns(Len(ps.urls)) :
         LET fetched == [i \in 1..Len(ps.urls) |->
                           IF got[i] THEN << PageToken[i] >> ELSE << >>]
             content == extract_content(fetched)
             r == [src[mon_idx] EXCEPT !.extraction = TRUE,
                                       !.any_text = (\E i \in 1..Len(ps.urls) : got[i])]
         IN IF no_content(content)
              THEN process_source_except(r, "No content extracted")
              ELSE /\ ps' = [ps EXCEPT !.fetched = fetched, !.content = content]
                   /\ src' = [src EXCEPT ![mon_idx] = r]
                   /\ ep_pc' = "analyze"
                   /\ UNCHANGED << mon_idx, sources_processed, ep_sent >>
    /\ UNCHANGED << env, today, midnights, notification_manager, tablon_dates,
                    sources_skipped, exit_code >>
    /\ UNCHANGED outsideMonitor

\* process_source, lines 842-852: the analyzer is called with the content;
\* its answer is sent with the metadata, or it raises
process_source_analyze(outcome) ==
    /\ ep_pc = "analyze"
    /\ LET r == [src[mon_idx] EXCEPT !.analyzed = TRUE] IN
         IF outcome = "raise"
           THEN process_source_except(r, "analyzer raised")
           ELSE /\ ep_sent' = manager_send_message(ep_sent, notification_manager,
                                  content_subject(source.name), "analysis", TRUE)
                /\ src' = [src EXCEPT ![mon_idx] =
                             [r EXCEPT !.status = "Completed", !.counted = "processed"]]
                /\ process_source_returns
    /\ UNCHANGED << env, today, midnights, notification_manager, tablon_dates,
                    sources_skipped, exit_code >>
    /\ UNCHANGED outsideMonitor

\* run, lines 886-890 and main, line 929: the loop is over and main returns
run_completed ==
    /\ ep_pc = "loop"
    /\ mon_idx = Len(Sources) + 1
    /\ exit_code' = << 0 >>
    /\ ep_pc' = "exited"
    /\ UNCHANGED << env, today, midnights, notification_manager, tablon_dates, mon_idx,
                    sources_processed, sources_skipped, src, ps, ep_sent >>
    /\ UNCHANGED outsideMonitor

\* the manager main's handler sends through (lines 938-945): the one it
\* has, or a minimal one built from a configuration loaded again
handler_manager(nm, e) ==
    IF nm.built THEN nm
    ELSE IF from_environment(e) THEN minimal_manager
    ELSE NoManager

\* A mutant of critical_notification: nothing is sent.
critical_notification_none(sent, nm, e) == sent

\* lines 937-954: the critical notification, when the handler has a manager;
\* Config.from_environment raising again ends the attempt
critical_notification(sent, nm, e) ==
    IF handler_manager(nm, e).built
      THEN manager_send_message(sent, handler_manager(nm, e), critical_subject,
                                "error_msg", FALSE)
      ELSE sent

\* main, lines 931-956: an exception left the try block
main_except ==
    /\ ep_pc = "except"
    /\ ep_sent' = critical_notification(ep_sent, notification_manager, env)
    /\ notification_manager' = handler_manager(notification_manager, env)
    /\ exit_code' = << 1 >>
    /\ ep_pc' = "exited"
    /\ UNCHANGED << env, today, midnights, tablon_dates, mon_idx,
                    sources_processed, sources_skipped, src, ps >>
    /\ UNCHANGED outsideMonitor

\* ------------------------------------------------------------------------
\* TelegramNotifier.send_message: the chunks of one message are posted
\* ------------------------------------------------------------------------

MaxTelegramLines == 2

\* a line of one word that is longer than the budget of a chunk
LongWord == 4090

\* the lengths of the lines of the message bodies: a blank line, a short
\* line, a line that fills the budget of a chunk, and a longer line
TelegramLineLengths == {0, 10, ScenarioD.max_length, LongWord}

\* len(subject) of "AUTOMATIZACIÓN EP: BOC"; len(str(metadata)), or none
\* for metadata = None
TelegramSubjects == {22}
NoMetadata == << >>
TelegramMetadata == {NoMetadata, << 30 >>}

\* the arguments of the calls: texts are given by the lengths of their lines
TelegramCalls ==
    [subject : TelegramSubjects,
     message : UNION { [1..k -> TelegramLineLengths] : k \in 1..MaxTelegramLines },
     metadata : TelegramMetadata]

\* full_message = f"\U0001F514 {subject}\n\n{message}", and then
\* full_message += f"\n\n\U0001F4CB Metadata: {str(metadata)}" (lines 679-681)
full_message(args) ==
    LET with_subject == << 2 + args.subject, 0 >> \o args.message
    IN IF args.metadata = NoMetadata THEN with_subject
       ELSE with_subject \o << 0, 12 + args.metadata[1] >>

\* len(str(k)) of a chunk number
Digits(k) == IF k < 10 THEN 1 ELSE IF k < 100 THEN 2 ELSE 3

\* len(chunk_header), chunk_header = f"\U0001F4E8 Parte {i}/{len(chunks)}\n\n"
\* (line 693)
chunk_header(i, n) == 8 + Digits(i) + 1 + Digits(n) + 2

\* what one requests.post of a chunk does: status 200, another status, or
\* an exception (timeout, connection error)
PostOutcomes == {"200", "not 200", "raised"}

\* A mutant of next_chunk: an exception ends the loop.
next_chunk_break(i, n, outcome) == IF outcome = "raised" THEN n + 1 ELSE i + 1

\* the chunk the for loop goes to after chunk i: the next one, also after
\* "except Exception as chunk_error: ... continue" (lines 714-717)
next_chunk(i, n, outcome) == i + 1

\* "if i < len(chunks): time.sleep(0.5)" (lines 711-712) is reached when the
\* post returned, with any status; an exception of the post jumps over it
sleep_after(i, n, outcome) ==
    IF outcome # "raised" /\ i < n
      THEN << [op |-> "sleep", seconds |-> "0.5"] >>
    ELSE << >>

InitTelegram ==
    /\ tg_pc = "idle"
    /\ tg_args = << >>
    /\ tg_chunks = << >>
    /\ tg_i = 0
    /\ tg_trace = << >>

IdleTelegram ==
    /\ tg_pc = "off"
    /\ tg_args = << >>
    /\ tg_chunks = << >>
    /\ tg_i = 0
    /\ tg_trace = << >>

outsideTelegram ==
    << varsBOC, varsSplit, varsScenario, varsUrls, varsNotify, varsMonitor, varsDiff >>

\* send_message(subject, message, metadata) up to the for loop (lines
\* 677-687): the full message is built and split
telegram_send_message(args) ==
    /\ tg_pc = "idle"
    /\ tg_args' = << args >>
    /\ tg_chunks' = text_split_message(full_message(args), ScenarioD.max_length)
    /\ tg_i' = 1
    /\ tg_pc' = "loop"
    /\ UNCHANGED tg_trace
    /\ UNCHANGED outsideTelegram

\* one iteration of the for loop (lines 690-717): the chunk, under its
\* header when the message has several chunks, is posted once; then the
\* delay, unless the post raised or the chunk is the last
telegram_post_chunk(outcome) ==
    /\ tg_pc = "loop"
    /\ tg_i <= Len(tg_chunks)
    /\ LET n == Len(tg_chunks) IN
         /\ tg_trace' = Append(tg_trace,
                               [op |-> "post", part |-> tg_i, of |-> n,
                                header |-> n > 1, chunk |-> tg_chunks[tg_i],
                                outcome |-> outcome])
                        \o sleep_after(tg_i, n, outcome)
         /\ tg_i' = next_chunk(tg_i, n, outcome)
    /\ UNCHANGED << tg_pc, tg_args, tg_chunks >>
    /\ UNCHANGED outsideTelegram

\* the loop is over: "All Telegram message(s) sent" is printed and
\* send_message returns None (line 719)
telegram_send_message_returns ==
    /\ tg_pc = "loop"
    /\ tg_i > Len(tg_chunks)
    /\ tg_pc' = "returned"
    /\ UNCHANGED << tg_args, tg_chunks, tg_i, tg_trace >>
    /\ UNCHANGED outsideTelegram

\* ------------------------------------------------------------------------
\* urls_monitor.calculate_diff: the rendered diff is cut to a maximum size
\* ------------------------------------------------------------------------

\* max_diff_length = 2000 (line 278)
max_diff_length == 2000

MaxDiffMargin == 12

\* the lengths of the rendered diffs: empty, around the maximum, twice the
\* maximum
DiffLengths ==
    {0, 2 * max_diff_length}
      \cup ((max_diff_length - MaxDiffMargin)..(max_diff_length + MaxDiffMargin))

\* the rendered diffs: the character at each place is told apart from its
\* neighbours (the alphabet is gone through with a period)
DiffAlphabet == << "-", "+", " ", "@", "a", "b", "c", "d", "e", "\n" >>
DiffPeriods == {3, 7, 10}
DiffTexts ==
    { [i \in 1..n |-> DiffAlphabet[(i % period) + 1]] :
        n \in DiffLengths, period \in DiffPeriods }

\* f"\n... (diff truncado, total: {len(diff_text)} caracteres)", as one item
truncation_marker(total) ==
    "\n... (diff truncado, total: " \o ToString(total) \o " caracteres)"

\* A mutant of limit_diff_text: a diff of just the maximum length is cut too.
limit_diff_text_ge(diff_text) ==
    IF Len(diff_text) >= max_diff_length
      THEN SubSeq(diff_text, 1, max_diff_length)
             \o << truncation_marker(Len(diff_text)) >>
    ELSE diff_text

\* lines 277-282: "if len(diff_text) > max_diff_length: diff_text =
\* diff_text[:max_diff_length] + f'...'" and "return diff_text"
limit_diff_text(diff_text) ==
    IF Len(diff_text) > max_diff_length
      THEN SubSeq(diff_text, 1, max_diff_length)
             \o << truncation_marker(Len(diff_text)) >>
    ELSE diff_text

InitDiff ==
    /\ df_pc = "joined"
    /\ df_text \in DiffTexts
    /\ df_result = << >>

IdleDiff ==
    /\ df_pc = "off"
    /\ df_text = << >>
    /\ df_result = << >>

outsideDiff ==
    << varsBOC, varsSplit, varsScenario, varsUrls, varsNotify, varsMonitor,
       varsTelegram >>

\* calculate_diff from the joined diff to its return (lines 275-282)
calculate_diff_returns ==
    /\ df_pc = "joined"
    /\ df_result' = limit_diff_text(df_text)
    /\ df_pc' = "returned"
    /\ UNCHANGED df_text
    /\ UNCHANGED outsideDiff

\* ------------------------------------------------------------------------
\* Specifications
\* ------------------------------------------------------------------------

vars == << boc_pc, year, low, high, latest_page, probes, boc_urls,
           sp_pc, sp_text, sp_max, sp_chunks,
           sd_pc, sd_text, sd_chunks,
           um_pc, um_runs, um_clock, hash_file, snapshots, log_file,
           timestamp, um_idx, body, changes_detected, change_details,
           changed_pages, first_time_pages, error_pages, unchanged_pages,
           um_sent, fs_ops, um_fetched, um_prev,
           nm_pc, nm_notifiers, nm_dispatches, nm_msg, nm_idx, nm_calls, nm_log,
           ep_pc, env, today, midnights, notification_manager, tablon_dates, mon_idx,
           sources_processed, sources_skipped, src, ps, ep_sent, exit_code,
           tg_pc, tg_args, tg_chunks, tg_i, tg_trace,
           df_pc, df_text, df_result >>

\* SpecBOC: one discovery of BOCDataSource
InitSpecBOC == InitBOC /\ IdleSplit /\ IdleScenario /\ IdleUrls /\ IdleNotify /\ IdleMonitor /\ IdleTelegram /\ IdleDiff

NextBOC ==
    \/ \E exists \in BOOLEAN : find_latest_page_step(exists)
    \/ get_urls_to_scrape_found
    \/ get_urls_to_scrape_raise

SpecBOC == InitSpecBOC /\ [][NextBOC]_vars

\* SpecBOCFair: the discovery goes on while it can.  check_page_exists
\* returns from every probe (requests.get has timeout=5 and its exceptions
\* are caught), and time.sleep(Config.REQUEST_DELAY) returns, so the while
\* loop and the return that follows it are not held up for ever.
SpecBOCFair == SpecBOC /\ WF_vars(NextBOC)

\* SpecSplit: one call of _split_message on any text and budget
InitSpecSplit == InitSplit /\ IdleBOC /\ IdleScenario /\ IdleUrls /\ IdleNotify /\ IdleMonitor /\ IdleTelegram /\ IdleDiff

NextSplit == SplitCall

SpecSplit == InitSpecSplit /\ [][NextSplit]_vars

\* SpecScenarioD: one call of _split_message, budget 4000, on any of the
\* 9000-character texts
InitSpecScenarioD == InitScenario /\ IdleBOC /\ IdleSplit /\ IdleUrls /\ IdleNotify /\ IdleMonitor /\ IdleTelegram /\ IdleDiff

NextScenarioD == ScenarioSplitCall

SpecScenarioD == InitSpecScenarioD /\ [][NextScenarioD]_vars

\* SpecUrls: runs of urls_monitor.main, one after the other, on a store
\* that starts empty
InitSpecUrls == InitUrls /\ IdleBOC /\ IdleSplit /\ IdleScenario /\ IdleNotify /\ IdleMonitor /\ IdleTelegram /\ IdleDiff

NextUrls ==
    \/ StartRun
    \/ \E fetch \in FetchResults, exc \in ExcPoints, readable \in BOOLEAN :
         ProcessUrl(fetch, exc, readable)
    \/ Summary

SpecUrls == InitSpecUrls /\ [][NextUrls]_vars

\* SpecNotify: dispatches through one NotificationManager
InitSpecNotify == InitNotify /\ IdleBOC /\ IdleSplit /\ IdleScenario /\ IdleUrls /\ IdleMonitor /\ IdleTelegram /\ IdleDiff

NextNotify ==
    \/ \E msg \in Messages : send_message_call(msg)
    \/ \E outcome \in NotifierOutcomes : send_message_notify(outcome)
    \/ send_message_return

SpecNotify == InitSpecNotify /\ [][NextNotify]_vars

\* SpecMonitor: one execution of ep_monitor.main, in any environment and on
\* any day of the week
InitSpecMonitor ==
    InitMonitor /\ IdleBOC /\ IdleSplit /\ IdleScenario /\ IdleUrls /\ IdleNotify
      /\ IdleTelegram /\ IdleDiff

NextMonitor ==
    \/ Midnight
    \/ main_from_environment
    \/ \E analyzer \in {"ok", "raise"} : main_init(analyzer)
    \/ run_should_run_today
    \/ process_source_should_run_today
    \/ \E latest \in BOCLatest : BOC_get_urls_to_scrape(latest)
    \/ \E html \in TablonMarkups : Tablon_get_urls_to_scrape(html)
    \/ BOP_get_urls_to_scrape
    \/ process_source_extract_content
    \/ \E outcome \in {"ok", "raise"} : process_source_analyze(outcome)
    \/ run_completed
    \/ main_except

SpecMonitor == InitSpecMonitor /\ [][NextMonitor]_vars

\* SpecMonitorFair: main goes on while it can.  The external calls return
\* or fail (requests.get is called with a timeout and its exceptions are
\* caught or end process_source in its handler; the analyzer and the
\* notifiers return or raise), time.sleep returns, and the search of the
\* latest BOC page ends (SpecBOCFair), so no step of the loop is held up
\* for ever.
SpecMonitorFair == SpecMonitor /\ WF_vars(NextMonitor)

\* SpecTelegram: one send_message call of the TelegramNotifier
InitSpecTelegram ==
    InitTelegram /\ IdleBOC /\ IdleSplit /\ IdleScenario /\ IdleUrls /\ IdleNotify
      /\ IdleMonitor /\ IdleDiff

NextTelegram ==
    \/ \E args \in TelegramCalls : telegram_send_message(args)
    \/ \E outcome \in PostOutcomes : telegram_post_chunk(outcome)
    \/ telegram_send_message_returns

SpecTelegram == InitSpecTelegram /\ [][NextTelegram]_vars

\* SpecDiff: one call of calculate_diff, from the rendered diff on
InitSpecDiff ==
    InitDiff /\ IdleBOC /\ IdleSplit /\ IdleScenario /\ IdleUrls /\ IdleNotify
      /\ IdleMonitor /\ IdleTelegram

NextDiff == calculate_diff_returns

SpecDiff == InitSpecDiff /\ [][NextDiff]_vars

\* ------------------------------------------------------------------------
\* Claims
\* ------------------------------------------------------------------------

\* the probes made so far are those of existence threshold T:
\* pages 1..T exist, pages T+1..MAX do not
ConsistentWith(T) ==
    \A i \in 1..Len(probes) : probes[i].exists = (probes[i].page <= T)

\* C1: for every existence threshold T in [1, MAX_PAGE_NUMBER],
\* find_latest_page returns exactly T and get_urls_to_scrape returns the
\* single-element list holding the URL of page T.
C1_ReturnsThreshold ==
    \A T \in 1..MAX_PAGE_NUMBER :
        (low > high /\ ConsistentWith(T)) =>
            /\ latest_page = T
            /\ boc_pc # "raised"
            /\ boc_pc = "done" => boc_urls = << get_url(year, T) >>

\* a search that ended on a threshold strictly inside the page space
C1_Witness ==
    /\ boc_pc = "done"
    /\ \E T \in 2..(MAX_PAGE_NUMBER - 1) : ConsistentWith(T) /\ latest_page = T
    /\ Len(boc_urls) = 1

\* concatenation of a list of strings
RECURSIVE Concat(_)
Concat(ss) == IF ss = << >> THEN << >> ELSE Head(ss) \o Concat(Tail(ss))

\* the characters of s that are not whitespace, in order
RECURSIVE NonWhitespace(_)
NonWhitespace(s) ==
    IF s = << >> THEN << >>
    ELSE IF Head(s) \in Whitespace THEN NonWhitespace(Tail(s))
    ELSE << Head(s) >> \o NonWhitespace(Tail(s))

\* C9 as stated: re-concatenating the chunks of _split_message reproduces
\* the original text exactly, for any text and budget.
C9_RoundTripExact ==
    sp_pc = "done" => Concat(sp_chunks) = sp_text

\* C9 as amended: the chunks hold the text's non-whitespace characters, all
\* of them and in order (only spaces and newlines are dropped or replaced),
\* and a text that fits the budget is returned as the one chunk, unchanged.
C9_RoundTripModuloWhitespace ==
    sp_pc = "done" =>
        /\ NonWhitespace(Concat(sp_chunks)) = NonWhitespace(sp_text)
        /\ Len(sp_text) <= sp_max => sp_chunks = << sp_text >>

\* a text over the budget was split in several chunks, one of them from the
\* word-splitting branch
C9_Witness ==
    /\ sp_pc = "done"
    /\ Len(sp_text) > sp_max
    /\ Len(sp_chunks) >= 2
    /\ \E i \in 1..Len(sp_chunks) : Len(sp_chunks[i]) > sp_max

\* C10: every chunk returned by _split_message has length at most the
\* budget, also when the text has a line or a word longer than the budget.
C10_ChunkWithinBudget ==
    sp_pc = "done" =>
        \A i \in 1..Len(sp_chunks) : Len(sp_chunks[i]) <= sp_max

\* ---- scenario D

\* C11 as stated: a message of 9000 characters with no line over 4000,
\* split with budget 4000, yields exactly 3 chunks, each of at most 4000
\* characters.
C11_ExactlyThreeChunks ==
    sd_pc = "done" =>
        /\ Len(sd_chunks) = 3
        /\ \A i \in 1..Len(sd_chunks) : text_len(sd_chunks[i]) <= ScenarioD.max_length

\* C11 as amended: such a message yields at least 3 and at most 5 chunks,
\* each of at most 4000 characters.
C11_ThreeToFiveChunks ==
    sd_pc = "done" =>
        /\ Len(sd_chunks) \in 3..5
        /\ \A i \in 1..Len(sd_chunks) : text_len(sd_chunks[i]) <= ScenarioD.max_length

\* a 9000-character message whose lines pack badly was split in 5 chunks,
\* one of them as long as the budget allows
C11_Witness ==
    /\ sd_pc = "done"
    /\ text_len(sd_text) = ScenarioD.length
    /\ \A i \in 1..Len(sd_text) : sd_text[i] <= ScenarioD.max_length
    /\ Len(sd_chunks) = 5
    /\ \E i \in 1..Len(sd_chunks) : text_len(sd_chunks[i]) >= ScenarioD.max_length - 2

\* ---- urls_monitor: outcomes of the run in progress, read off main's locals

InList(list, x) == \E i \in 1..Len(list) : list[i] = x

Count(list, x) == Cardinality({i \in 1..Len(list) : list[i] = x})

\* the iteration of URL u has completed in this run
Processed(u) == \E i \in 1..Len(body) : body[i].title = URL_TITLES[u]

\* the message the iteration of URL u appended to body
BodyOf(b, u) == { b[i].msg : i \in {j \in 1..Len(b) : b[j].title = URL_TITLES[u]} }

\* the file writes of this run on the records of URL u
OpsOf(u) ==
    LET OfU(o) == o.url = u IN SelectSeq(fs_ops, OfU)

\* the change details of this run for URL u
DetailsOf(u) ==
    LET OfU(d) == d.url = u IN SelectSeq(change_details, OfU)

FirstObservation(u) == InList(first_time_pages, URL_TITLES[u])
Changed(u) == InList(changed_pages, URL_TITLES[u])
Unchanged(u) == BodyOf(body, u) = {"Sin cambios detectados."}

\* C2: the fingerprint file of a URL is written in a run if and only if the
\* run's outcome for the URL is first observation or changed, and then once;
\* otherwise it is as it was when the run started.
C2_FingerprintWrittenIffNew ==
    \A u \in Urls :
        LET writes == Count(OpsOf(u), [op |-> "write_hash", url |-> u]) IN
          /\ writes >= 1 <=> (FirstObservation(u) \/ Changed(u))
          /\ writes <= 1
          /\ writes = 0 => hash_file[u] = um_prev.hash_file[u]

\* a run that wrote the fingerprint on a change, after a run that left one
C2_Witness ==
    \E u \in Urls :
        /\ Changed(u)
        /\ um_prev.hash_file[u] # NoFile
        /\ hash_file[u] # um_prev.hash_file[u]

\* C3: a first observation of a non-empty text followed, in the next run, by
\* a download of the same text is unchanged, not changed, and the fingerprint
\* file keeps the content the first run gave it.
C3_Idempotent ==
    \A u \in Urls :
        ( /\ BodyOf(um_prev.body, u) = {"Primera ejecucion, guardando estado actual."}
          /\ um_fetched[u] = um_prev.fetched[u]
          /\ Processed(u) )
        => /\ Unchanged(u)
           /\ ~Changed(u)
           /\ ~FirstObservation(u)
           /\ hash_file[u] = um_prev.hash_file[u]
           /\ hash_file[u] = sha256(um_fetched[u])

\* the second of two runs that downloaded "Hello world"
C3_Witness ==
    \E u \in Urls :
        /\ um_runs = 2
        /\ BodyOf(um_prev.body, u) = {"Primera ejecucion, guardando estado actual."}
        /\ um_prev.fetched[u] = "Hello world"
        /\ um_fetched[u] = "Hello world"
        /\ Unchanged(u)

\* C4 as stated: on the unchanged outcome the run mutates no record of the
\* URL: not the fingerprint, not the snapshot store, not the change log.
C4_UnchangedNoStoreMutation ==
    \A u \in Urls : Unchanged(u) => OpsOf(u) = << >>

\* C4 as amended: on the unchanged outcome the fingerprint and the change
\* log are as they were; the snapshot store gets the snapshot file of the
\* run, which is written before the comparison, and that is the only write.
C4_UnchangedWritesSnapshotOnly ==
    \A u \in Urls :
        Unchanged(u) =>
            /\ OpsOf(u) = << [op |-> "write_snapshot", url |-> u] >>
            /\ hash_file[u] = um_prev.hash_file[u]
            /\ hash_file[u] = sha256(um_fetched[u])
            /\ log_file[u] = um_prev.log_file[u]
            /\ snapshots[u] # << >>
            /\ snapshots[u][Len(snapshots[u])] = [ts |-> timestamp, text |-> um_fetched[u]]

\* an unchanged outcome whose run has written its snapshot file
C4_Witness ==
    \E u \in Urls :
        /\ Unchanged(u)
        /\ snapshots[u][Len(snapshots[u])].ts = timestamp
        /\ InList(fs_ops, [op |-> "write_snapshot", url |-> u])

\* C5: with no fingerprint file and a non-empty download the outcome is
\* first observation: the fingerprint file holds the SHA-256 of the text,
\* the snapshot is stored, no diff is made, the change log is as it was and
\* the URL is not among the changed pages.
C5_FirstObservation ==
    \A u \in Urls :
        ( /\ Processed(u)
          /\ um_prev.hash_file[u] = NoFile
          /\ um_fetched[u] \in PageTexts \ {""} )
        => /\ FirstObservation(u)
           /\ BodyOf(body, u) = {"Primera ejecucion, guardando estado actual."}
           /\ hash_file[u] = sha256(um_fetched[u])
           /\ snapshots[u] # << >>
           /\ snapshots[u][Len(snapshots[u])] = [ts |-> timestamp, text |-> um_fetched[u]]
           /\ DetailsOf(u) = << >>
           /\ log_file[u] = um_prev.log_file[u]
           /\ ~Changed(u)

\* scenario A: no fingerprint, the download is "Hello world"
C5_Witness ==
    \E u \in Urls :
        /\ um_prev.hash_file[u] = NoFile
        /\ um_fetched[u] = "Hello world"
        /\ FirstObservation(u)
        /\ hash_file[u] = "64ec88ca00b268e5ba1a35678a1b5316d212f4f366b2477232534a8aeca37f3c"

C7_OneOutcomePerUrl ==
    um_pc = "summary" =>
        /\ Len(changed_pages) + Len(first_time_pages) + Len(error_pages)
             + unchanged_pages = NumUrls
        /\ \A u \in Urls :
             LET t == URL_TITLES[u] IN
               Count(changed_pages, t) + Count(first_time_pages, t)
                 + Count(error_pages, t) + (IF Unchanged(u) THEN 1 ELSE 0) = 1
        /\ unchanged_pages = Cardinality({u \in Urls : Unchanged(u)})

\* the loop of a second run has ended with an empty download on record
C7_Witness ==
    /\ um_pc = "summary"
    /\ um_runs = 2
    /\ \E u \in Urls : um_fetched[u] = "" /\ InList(error_pages, URL_TITLES[u])

\* ---- NotificationManager

\* the notifiers called so far in the dispatch, in call order
Called == [i \in 1..Len(nm_calls) |-> nm_calls[i].notifier]

\* C8: NotificationManager.send_message never raises: whichever notifiers
\* raise, the notifiers are called one after the other in registration
\* order, each once and with the arguments of the dispatch, and the call
\* returns to its caller when all have been called.
C8_DispatchIsolatesFailures ==
    /\ nm_pc # "raised"
    /\ nm_pc = "dispatch" =>
          /\ nm_idx <= Len(nm_notifiers) + 1
          /\ Called = SubSeq(nm_notifiers, 1, nm_idx - 1)
    /\ (nm_pc = "idle" /\ nm_dispatches > 0) => Called = nm_notifiers
    /\ \A i \in 1..Len(nm_calls) : nm_calls[i].msg = nm_msg
    /\ Len(nm_log) = Cardinality({i \in 1..Len(nm_calls) : nm_calls[i].outcome = "raise"})

\* a dispatch has returned although its first notifier raised, the
\* notifiers after it having been called
C8_Witness ==
    /\ nm_pc = "idle"
    /\ nm_dispatches > 0
    /\ Len(nm_calls) = 3
    /\ nm_calls[1].outcome = "raise"
    /\ nm_calls[3].notifier = "EmailNotifier"

\* ---- ep_monitor.main: what the run did with each source

\* the evaluations of the schedule rule recorded for source i
ChecksOf(i) == src[i].run_check \o src[i].ps_check

\* the send_message calls made with the given subject
Sent(subject) == { k \in 1..Len(ep_sent) : ep_sent[k].subject = subject }

\* the notifications about source i: content and error
NotificationsOf(i) ==
    Sent(content_subject(Sources[i].name)) \cup Sent(error_subject(Sources[i].name))

\* C12: in MultiSourceMonitor.run a source whose schedule rule returns
\* false is skipped entirely (no discovery, no fetch, no analysis, no
\* notification) and counted as skipped, and every source counted as
\* processed had get_urls_to_scrape invoked.
C12_SkippedOrDiscovered ==
    \A i \in 1..Len(src) :
        /\ (src[i].run_check # << >> /\ ~ src[i].run_check[1].ok) =>
              /\ src[i].counted = "skipped"
              /\ ~ src[i].discovery /\ ~ src[i].extraction /\ ~ src[i].analyzed
              /\ NotificationsOf(i) = {}
        /\ src[i].counted = "processed" => src[i].discovery

\* C13: on the weekdays 0 (Monday) to 6 (Sunday) the schedule rule of the
\* BOC source answers yes exactly on 0..4, that of the BOP sources exactly
\* on 6 and that of the Tablón on all seven.
C13_ScheduleRules ==
    \A i \in 1..Len(src) : \A k \in 1..Len(ChecksOf(i)) :
        LET c == ChecksOf(i)[k] IN
          /\ c.wd \in 0..6
          /\ Sources[i].kind = "BOC" => (c.ok <=> c.wd \in {0, 1, 2, 3, 4})
          /\ Sources[i].kind = "BOP" => (c.ok <=> c.wd \in {6})
          /\ Sources[i].kind = "Tablon" => c.ok

\* a run over the night from Saturday to Sunday: the BOC source was refused
\* on the Saturday, the Tablón accepted, and a BOP source accepted on the
\* Sunday
C13_Witness ==
    /\ ep_pc = "exited"
    /\ src[1].run_check = << [wd |-> 5, ok |-> FALSE] >>
    /\ src[2].run_check # << >> /\ src[2].run_check[1].ok
    /\ src[4].run_check = << [wd |-> 6, ok |-> TRUE] >>

\* the source has left Running
Ended(i) == src[i].status \in {"Completed", "Failed"}

\* why process_source failed, read off what it did: the discovery raised,
\* no fetch returned text, the analyzer raised
DiscoveryRaised(i) ==
    /\ src[i].discovery /\ ~ src[i].extraction
    /\ src[i].cause \in {"Could not find latest BOC page",
                         "Could not fetch first page from Tablón"}
AllFetchesEmpty(i) == src[i].extraction /\ ~ src[i].any_text
AnalyzerRaised(i) == src[i].analyzed /\ src[i].cause = "analyzer raised"

\* the states of the sources, at any moment of the run
C14_States ==
    /\ \A i \in 1..Len(src) :
        /\ src[i].status \in {"Pending", "Skipped", "Running", "Completed", "Failed"}
        /\ src[i].status = "Running" =>
              i = mon_idx /\ ep_pc \in {"discover", "extract", "analyze"}
        /\ src[i].status = "Skipped" =>
              ~ src[i].discovery /\ ~ src[i].extraction /\ ~ src[i].analyzed
        /\ Ended(i) =>
              /\ src[i].ps_check # << >> /\ src[i].ps_check[1].ok
              /\ src[i].status = "Failed" <=>
                    (DiscoveryRaised(i) \/ AllFetchesEmpty(i) \/ AnalyzerRaised(i))
        /\ src[i].status = "Completed" =>
              Cardinality(Sent(content_subject(Sources[i].name))) = 1
        /\ src[i].analyzed => src[i].any_text
    /\ ep_pc = "analyze" => ps.content # << >>
    /\ exit_code = << 0 >> =>
          \A i \in 1..Len(src) : src[i].status \in {"Skipped", "Completed", "Failed"}

\* the moves of the sources: Pending to Skipped or Running, Running to
\* Completed or Failed, no move out of Skipped, Completed and Failed
C14_Moves ==
    \A i \in 1..Len(src) :
        /\ src[i].status = "Pending" => src'[i].status \in {"Pending", "Skipped", "Running"}
        /\ src[i].status = "Running" => src'[i].status \in {"Running", "Completed", "Failed"}
        /\ src[i].status \in {"Skipped", "Completed", "Failed"} =>
              src'[i].status = src[i].status

\* C14: every source moves Pending -> Skipped or Pending -> Running ->
\* (Completed | Failed) and ends in one terminal state; a Running source
\* ends Failed exactly when its discovery raises, or every fetch returns
\* empty content, or the analyzer raises, and ends Completed otherwise,
\* with its content notification dispatched; the analyzer is never given
\* empty content.
C14_SourceStateMachine == [] C14_States /\ [][C14_Moves]_vars

\* a run that ended with a source Skipped, a source Completed, a source
\* Failed because no fetch returned text and a source Failed because the
\* analyzer raised
C14_Witness ==
    /\ exit_code = << 0 >>
    /\ \E i \in 1..Len(src) : src[i].status = "Skipped"
    /\ \E i \in 1..Len(src) : src[i].status = "Completed"
    /\ \E j, k \in 1..Len(src) :
          /\ src[j].status = "Failed" /\ AllFetchesEmpty(j)
          /\ src[k].status = "Failed" /\ AnalyzerRaised(k)

\* the classes of the notifiers registered in main's manager
ManagerNotifiers ==
    [j \in 1..Len(notification_manager.notifiers) |->
        notification_manager.notifiers[j].class]

\* the send_message calls whose subject says 'Error <name>' for source i
ErrorNotificationsOf(i) ==
    { k \in 1..Len(ep_sent) :
        /\ Len(ep_sent[k].subject) = 3
        /\ ep_sent[k].subject[2] = "Error"
        /\ ep_sent[k].subject[3] = Sources[i].name }

\* C15: for every source that ends Failed exactly one error notification
\* (subject with 'Error <source name>') is dispatched through the same
\* notification manager and no content notification; the sources
\* configured after it are still evaluated and processed: a failure of a
\* source never aborts run.
C15_FailedSourceNotifiedOnce ==
    \A i \in 1..Len(src) :
        src[i].status = "Failed" =>
            /\ Cardinality(ErrorNotificationsOf(i)) = 1
            /\ \A k \in ErrorNotificationsOf(i) : ep_sent[k].notifiers = ManagerNotifiers
            /\ Sent(content_subject(Sources[i].name)) = {}
            /\ ep_pc \notin {"except"}
            /\ ep_pc = "exited" =>
                  /\ exit_code = << 0 >>
                  /\ \A j \in (i + 1)..Len(src) :
                        /\ src[j].run_check # << >>
                        /\ src[j].status \in {"Skipped", "Completed", "Failed"}
                        /\ src[j].run_check[1].ok /\ src[j].ps_check[1].ok =>
                              src[j].discovery

\* a run in which the Tablón failed at discovery and a BOP source after it
\* was processed to the end
C15_Witness ==
    /\ ep_pc = "exited"
    /\ src[2].status = "Failed" /\ DiscoveryRaised(2)
    /\ Cardinality(ErrorNotificationsOf(2)) = 1
    /\ src[3].status = "Completed"

\* the positions of the URLs whose fetch returned text, and the k-th of them
WithText == { i \in 1..Len(ps.fetched) : ps.fetched[i] # << >> }
KthWithText(k) == CHOOSE i \in WithText : Cardinality({ j \in WithText : j <= i }) = k

\* C16: a fetch that fails contributes empty content and does not fail the
\* source.  For any discovery result and any pattern of fetch results the
\* source fails with 'no content' exactly when every URL yields empty text;
\* otherwise the combined content is the non-empty texts, in discovery
\* order, joined by a blank line, and processing goes on to the analysis.
C16_ContentOfNonEmptyTexts ==
    /\ ep_pc = "analyze" =>
          LET n == Cardinality(WithText) IN
            /\ Len(ps.fetched) = Len(ps.urls)
            /\ n >= 1
            /\ Len(ps.content) = 2 * n - 1
            /\ \A k \in 1..n :
                  /\ << ps.content[2 * k - 1] >> = ps.fetched[KthWithText(k)]
                  /\ k < n => ps.content[2 * k] = "\n\n"
    /\ \A i \in 1..Len(src) :
          /\ src[i].cause = "No content extracted" <=> AllFetchesEmpty(i)
          /\ (src[i].extraction /\ src[i].any_text) =>
                \/ src[i].analyzed
                \/ src[i].status = "Running" /\ ep_pc = "analyze"
          /\ (src[i].status = "Failed" /\ src[i].any_text) => AnalyzerRaised(i)

\* the analysis is about to start on the content of a source of which a
\* fetch failed between two fetches that returned text
C16_Witness ==
    /\ ep_pc = "analyze"
    /\ \E i, j, k \in 1..Len(ps.fetched) :
          /\ i < j /\ j < k
          /\ ps.fetched[i] # << >> /\ ps.fetched[j] = << >> /\ ps.fetched[k] # << >>
    /\ Len(ps.content) > 2

\* C17 as stated: when the first page of the Tablón is fetched and its
\* markup has no token 'pages:<digits>', the discovery fails (the source is
\* marked Failed) and produces no URL list: a URL list comes from markup
\* with the token only.
C17_NoTokenFailsDiscovery ==
    ps.html # << >> => ps.html[1].token

\* C17 as amended: markup without the token is read as one page, and the
\* discovery returns the URL of page 1 alone; with the token it returns
\* the URLs of pages 1 to the number given (none for 'pages:0'); it fails
\* only when the fetch of the first page returns nothing.
C17_NoTokenOnePage ==
    /\ ps.html # << >> =>
          /\ ps.html[1].markup
          /\ ~ ps.html[1].token => ps.urls = << tablon_url(tablon_dates, 1) >>
          /\ ps.html[1].token =>
                /\ Len(ps.urls) = ps.html[1].pages
                /\ \A page \in 1..Len(ps.urls) :
                      ps.urls[page] = tablon_url(tablon_dates, page)
    /\ \A i \in 1..Len(src) :
          (Sources[i].kind = "Tablon" /\ src[i].status = "Failed"
             /\ src[i].discovery /\ ~ src[i].extraction) =>
                src[i].cause = "Could not fetch first page from Tablón"

\* the Tablón source goes on to fetch the one page discovered from markup
\* without the token
C17_Witness ==
    /\ ep_pc = "extract"
    /\ Sources[ps.source].kind = "Tablon"
    /\ ps.html # << >> /\ ps.html[1].markup /\ ~ ps.html[1].token
    /\ Len(ps.urls) = 1

\* run has gone through all the sources
RunCompleted ==
    /\ mon_idx = Len(Sources) + 1
    /\ \A i \in 1..Len(src) : src[i].status \in {"Skipped", "Completed", "Failed"}

\* the last send_message call is the critical notification, made through
\* the three notifiers of main's manager
CriticalSentThroughManager ==
    /\ ep_sent # << >>
    /\ ep_sent[Len(ep_sent)].subject = critical_subject
    /\ ep_sent[Len(ep_sent)].notifiers = ManagerNotifiers
    /\ Len(ManagerNotifiers) = 3

\* C18 as stated: main exits with code 0 on any completed run, also when
\* sources failed; it exits non-zero only for a failure that occurs before
\* any notification channel is established, never for one that happens
\* after the NotificationManager and its notifiers were constructed.
C18_NonZeroOnlyBeforeChannels ==
    ep_pc = "exited" =>
        /\ RunCompleted => exit_code = << 0 >>
        /\ exit_code # << 0 >> => ~ notification_manager.built

\* C18 as amended: main exits with code 0 exactly on a completed run, also
\* when sources failed; it exits with code 1 whenever an exception leaves
\* the setup, before the first source is evaluated: when the configuration
\* cannot be loaded (no channel established) and also when the analyzer
\* cannot be built after the NotificationManager and its notifiers were
\* constructed, in which case the critical notification is dispatched
\* through them before the exit.
C18_ExitCode ==
    ep_pc = "exited" =>
        /\ exit_code \in {<< 0 >>, << 1 >>}
        /\ exit_code = << 0 >> <=> RunCompleted
        /\ exit_code = << 1 >> =>
              /\ mon_idx = 0
              /\ \A i \in 1..Len(src) : src[i] = Pending
              /\ notification_manager.built <=> from_environment(env)
              /\ notification_manager.built => CriticalSentThroughManager

\* main has exited with code 1 after the manager and its three notifiers
\* were constructed, the critical notification sent through them
C18_Witness ==
    /\ ep_pc = "exited"
    /\ exit_code = << 1 >>
    /\ notification_manager.built
    /\ CriticalSentThroughManager

\* the credentials of the minimal manager of lines 941-945 are set
MinimalCredentials == {"TELEGRAM_BOT_TOKEN", "TELEGRAM_CHAT_ID"} \subseteq env

\* C19: when Config.from_environment fails no source is processed, and
\* whenever the minimal credentials are available (the bot token and the
\* chat id, even if the analysis key is missing) a critical notification
\* is still dispatched through the channels that can be constructed: the
\* console and the chat.
C19_CriticalNotificationOnConfigError ==
    (ep_pc = "exited" /\ ~ from_environment(env)) =>
        /\ \A i \in 1..Len(src) : src[i] = Pending
        /\ MinimalCredentials =>
              \E k \in Sent(critical_subject) :
                  {"ConsoleNotifier", "TelegramNotifier"} \subseteq ep_sent[k].transported

\* the channels that transport a message in environment env: the email
\* channel only when all its values are set
EnabledChannels ==
    {"ConsoleNotifier", "TelegramNotifier"}
      \cup (IF EmailVars \subseteq env THEN {"EmailNotifier"} ELSE {})

\* C20: if the bot token, the chat id or the analysis key is missing the
\* startup fails before any source is processed; if email values only are
\* missing the configuration is loaded, the three notifiers are
\* registered, all the sources are processed by the run, and the email
\* channel alone is disabled.
C20_StartupConfiguration ==
    /\ ~ from_environment(env) =>
          /\ ep_pc \in {"start", "except", "exited"}
          /\ ~ notification_manager.built
          /\ mon_idx = 0
          /\ \A i \in 1..Len(src) : src[i] = Pending
          /\ exit_code # << 0 >>
    /\ (from_environment(env) /\ ep_pc # "start") =>
          /\ notification_manager.built
          /\ ManagerNotifiers = << "ConsoleNotifier", "TelegramNotifier", "EmailNotifier" >>
          /\ \A j \in 1..Len(notification_manager.notifiers) :
                notification_manager.notifiers[j].is_configured
                  <=> ManagerNotifiers[j] \in EnabledChannels
          /\ \A k \in 1..Len(ep_sent) :
                /\ ep_sent[k].notifiers = ManagerNotifiers
                /\ ep_sent[k].transported = EnabledChannels
          /\ exit_code = << 0 >> =>
                \A i \in 1..Len(src) :
                    /\ src[i].run_check # << >>
                    /\ src[i].counted \in {"processed", "skipped"}

\* a run completed without the email password: every source was evaluated
\* and a content notification went out through the console and the chat,
\* not by email
C20_Witness ==
    /\ exit_code = << 0 >>
    /\ MandatoryVars \subseteq env
    /\ ~ (EmailVars \subseteq env)
    /\ \A i \in 1..Len(src) : src[i].run_check # << >>
    /\ \E i \in 1..Len(src) : \E k \in Sent(content_subject(Sources[i].name)) :
          ep_sent[k].transported = {"ConsoleNotifier", "TelegramNotifier"}

\* C21: a notifier constructed with missing credentials printed its
\* disabled status once, while it was constructed, and on every dispatch
\* it transports nothing and prints nothing.
C21_DisabledChannelSilent ==
    \A j \in 1..Len(notification_manager.notifiers) :
        ~ notification_manager.notifiers[j].is_configured =>
            /\ Len(notification_manager.notifiers[j].init_log) = 1
            /\ \A k \in 1..Len(ep_sent) :
                  ep_sent[k].notifiers = ManagerNotifiers =>
                      /\ ManagerNotifiers[j] \notin ep_sent[k].transported
                      /\ ep_sent[k].skip_log[j] = << >>

\* the lines the run has appended so far to the change log of URL u
LinesOfRun(u) == Len(log_file[u]) - Len(um_prev.log_file[u])

\* C22: the change log of a URL only grows, and a run adds one line to it
\* when its outcome for the URL is changed and none otherwise, so that the
\* log has as many lines as there were runs with the changed outcome.
C22_LogLinePerChangedOutcome ==
    \A u \in Urls :
        /\ SubSeq(log_file[u], 1, Len(um_prev.log_file[u])) = um_prev.log_file[u]
        /\ LinesOfRun(u) = IF Changed(u) THEN 1 ELSE 0

\* the days of two weeks, day 0 being a Monday
TwoWeeks == 0..13

\* the Monday of the week that contains the given day
MondayOf(day) == CHOOSE m \in (day - 6)..day : weekday(m) = 0

\* the nine URLs of the week of the given day: for its Monday, Wednesday
\* and Friday, in this order, the bulletin, the annex and the extraordinary
\* edition
WeekUrls(base_url, day) ==
    LET date(k) == strftime(MondayOf(day) + 2 * (k - 1)) IN
      << [site |-> base_url, doc |-> "sumario.php", fecha_mas_reciente |-> date(1)],
         [site |-> base_url, doc |-> "sumario1.php", fecha_mas_reciente |-> date(1)],
         [site |-> base_url, doc |-> "sumario2.php", fecha_mas_reciente |-> date(1)],
         [site |-> base_url, doc |-> "sumario.php", fecha_mas_reciente |-> date(2)],
         [site |-> base_url, doc |-> "sumario1.php", fecha_mas_reciente |-> date(2)],
         [site |-> base_url, doc |-> "sumario2.php", fecha_mas_reciente |-> date(2)],
         [site |-> base_url, doc |-> "sumario.php", fecha_mas_reciente |-> date(3)],
         [site |-> base_url, doc |-> "sumario1.php", fecha_mas_reciente |-> date(3)],
         [site |-> base_url, doc |-> "sumario2.php", fecha_mas_reciente |-> date(3)] >>

\* on every day of two weeks, get_urls_to_scrape of each BOP source
\* returns, without raising, the nine URLs of the week of that day
WeekUrlsOnEveryDay ==
    \A i \in 1..Len(Sources) : \A day \in TwoWeeks :
        Sources[i].kind = "BOP" =>
            BOP_urls(Sources[i].base_url, day) =
                [raised |-> "", urls |-> WeekUrls(Sources[i].base_url, day)]

\* C23: on every day BOPDataSource.get_urls_to_scrape returns, without
\* raising, the nine URLs of the week of that day on the site of the
\* source; in a run the list discovered for a BOP source is that of the
\* day of the call, and no markup was fetched to find it.
C23_WeeklyFixedPattern ==
    /\ WeekUrlsOnEveryDay
    /\ (ep_pc \in {"extract", "analyze"} /\ source.kind = "BOP") =>
          /\ ps.urls = WeekUrls(source.base_url, today)
          /\ Len(ps.urls) = 9
          /\ ps.html = << >>

\* the nine URLs of a BOP source have been discovered on a Sunday
C23_Witness ==
    /\ ep_pc = "extract"
    /\ source.kind = "BOP"
    /\ weekday(today) = 6
    /\ Len(ps.urls) = 9
    /\ ps.urls[9].fecha_mas_reciente = strftime(today - 2)

\* the positions of the requests.post calls in the trace
Posts == { k \in 1..Len(tg_trace) : tg_trace[k].op = "post" }

\* the parts posted so far, in the order of the posts
PostedParts ==
    LET IsPost(e) == e.op = "post"
        posts == SelectSeq(tg_trace, IsPost)
    IN [k \in 1..Len(posts) |-> posts[k].part]

\* C24: when the message has several chunks, between any two consecutive
\* posts of chunks the fixed delay has been slept, whatever the posts did.
C24_DelayBetweenChunkSends ==
    Len(tg_chunks) > 1 =>
        \A k \in Posts :
            (k + 1 <= Len(tg_trace)) =>
                tg_trace[k + 1] = [op |-> "sleep", seconds |-> "0.5"]

\* C25: every chunk of the message is posted once, in order: while the loop
\* runs the parts before the current one have been posted, at the return
\* all of them, whatever the earlier posts did; the call ends by returning.
C25_EveryChunkAttemptedOnce ==
    /\ tg_pc \in {"idle", "loop", "returned"}
    /\ tg_pc = "loop" =>
          /\ tg_i \in 1..(Len(tg_chunks) + 1)
          /\ PostedParts = [k \in 1..(tg_i - 1) |-> k]
    /\ tg_pc = "returned" =>
          /\ PostedParts = [k \in 1..Len(tg_chunks) |-> k]
          /\ \A k \in Posts : tg_trace[k].chunk = tg_chunks[tg_trace[k].part]

\* a message of three chunks or more has been sent, the post of its first
\* chunk raised and the post of the second got an error status
C25_Witness ==
    /\ tg_pc = "returned"
    /\ Len(tg_chunks) >= 3
    /\ \E k1, k2 \in Posts :
          /\ tg_trace[k1].part = 1 /\ tg_trace[k1].outcome = "raised"
          /\ tg_trace[k2].part = 2 /\ tg_trace[k2].outcome = "not 200"
    /\ PostedParts = [k \in 1..Len(tg_chunks) |-> k]

\* ceil(log2(n)): the least k with 2^k >= n
RECURSIVE CeilLog2From(_, _, _)
CeilLog2From(n, k, power) ==
    IF power >= n THEN k ELSE CeilLog2From(n, k + 1, 2 * power)

CeilLog2(n) == CeilLog2From(n, 0, 1)

\* the search has ended: get_urls_to_scrape returned or raised
SearchEnded == boc_pc \in {"done", "raised"}

\* a probe narrows the interval [low, high] from one side
ProbeShrinks ==
    probes' # probes =>
        /\ low' >= low
        /\ high' <= high
        /\ high' - low' < high - low

\* C26: whatever the probes answer, find_latest_page makes at most
\* ceil(log2(MAX_PAGE_NUMBER)) + 1 probes (10 for 366 pages), each probe
\* strictly narrows the interval [low, high], and the search ends.
C26_SearchTerminates ==
    /\ [](Len(probes) <= CeilLog2(MAX_PAGE_NUMBER) + 1)
    /\ [](CeilLog2(MAX_PAGE_NUMBER) + 1 = 10)
    /\ [][ProbeShrinks]_vars
    /\ <>SearchEnded

\* a search of the longest kind has ended after answers that found a page,
\* lost the next, and found one again
C26_Witness ==
    /\ boc_pc = "done"
    /\ Len(probes) = 9
    /\ probes[1].exists /\ ~ probes[2].exists /\ probes[3].exists

\* C27: a discovery that finds no page fails with a discovery error (the
\* source fails and nothing is fetched), and the list of URLs a discovery
\* returns without error is never empty.
C27_DiscoveryNeverEmpty ==
    /\ \A i \in 1..Len(src) :
          (Sources[i].kind = "BOC" /\ src[i].cause = "Could not find latest BOC page") =>
              /\ src[i].status = "Failed"
              /\ ~ src[i].extraction
    /\ \A latest \in BOCLatest : \A y \in Years :
          BOC_urls(latest, y).raised = "" <=> latest # NoPage
    /\ ep_pc \in {"extract", "analyze"} => ps.urls # << >>

\* C28: in a run the schedule rule of a source is evaluated once, all
\* the evaluations of the run read the same calendar day, and no two
\* evaluations for a source give different answers.
C28_ScheduleEvaluatedOnce ==
    /\ \A i \in 1..Len(src) :
          /\ Len(ChecksOf(i)) <= 1
          /\ \A k, l \in 1..Len(ChecksOf(i)) : ChecksOf(i)[k].ok = ChecksOf(i)[l].ok
    /\ \A i, j \in 1..Len(src) :
          \A k \in 1..Len(ChecksOf(i)) : \A l \in 1..Len(ChecksOf(j)) :
              ChecksOf(i)[k].wd = ChecksOf(j)[l].wd

\* the answers differ: run found the source scheduled, process_source, after
\* midnight, did not
C28_AnswersDiffer ==
    \E i \in 1..Len(src) :
        /\ Len(ChecksOf(i)) = 2
        /\ ChecksOf(i)[1].ok /\ ~ ChecksOf(i)[2].ok

\* the first page of the Tablón was fetched and reports c >= 1 pages
ReportsPages(html) == html.markup /\ html.token /\ html.pages >= 1

\* the URLs of pages 1..c of the search between the two dates
PagesOf(c, fecha_inicio, fecha_fin) ==
    [page \in 1..c |->
        [site |-> "tablon_anuncios", fh |-> fecha_fin, fd |-> fecha_inicio,
         page |-> page]]

\* for a source constructed on any day of two weeks with days_back = 0 and
\* any first page that reports c >= 1 pages, get_urls_to_scrape returns the
\* URLs of pages 1..c with both dates equal to the day of construction
PagesOnEveryDay ==
    \A html \in { h \in TablonMarkups : ReportsPages(h) } : \A day \in TwoWeeks :
        Tablon_urls(html, _get_date_range(day, 0)) =
            [raised |-> "", urls |-> PagesOf(html.pages, strftime(day), strftime(day))]

\* C29: when the first page reports c >= 1 pages, the discovery of the
\* Tablón returns c URLs, those of pages 1..c in ascending order, all with
\* the start and end date computed when the source was constructed, which
\* are the same day (days_back = 0) even if the date has changed since.
C29_PaginatedListing ==
    /\ PagesOnEveryDay
    /\ (ep_pc \in {"extract", "analyze"} /\ source.kind = "Tablon"
          /\ ReportsPages(ps.html[1])) =>
          /\ Len(ps.urls) = ps.html[1].pages
          /\ \A p \in 1..Len(ps.urls) : ps.urls[p].page = p
          /\ ps.urls = PagesOf(ps.html[1].pages, tablon_dates.fecha_inicio,
                               tablon_dates.fecha_fin)
          /\ \E d \in (today - midnights)..today :
                tablon_dates = [fecha_inicio |-> strftime(d), fecha_fin |-> strftime(d)]

\* two pages were discovered after the date had changed since the source
\* was constructed: the URLs carry the day of construction
C29_Witness ==
    /\ ep_pc = "extract"
    /\ source.kind = "Tablon"
    /\ ReportsPages(ps.html[1])
    /\ Len(ps.urls) = 2
    /\ midnights = 1
    /\ ps.urls[2].fh = strftime(today - 1)
    /\ ps.urls[1].fd = strftime(today - 1)

\* the characters of the diff in the returned string: all of it but the
\* truncation marker
DiffPortion ==
    LET IsChar(c) == \E k \in 1..Len(DiffAlphabet) : c = DiffAlphabet[k]
    IN SelectSeq(df_result, IsChar)

\* C30: a rendered diff of at most 2000 characters is returned as it is; a
\* longer one is returned as its first 2000 characters followed by the
\* truncation marker; the diff portion of the result never exceeds 2000
\* characters.
C30_DiffBounded ==
    df_pc = "returned" =>
        /\ Len(df_text) <= 2000 => df_result = df_text
        /\ Len(df_text) > 2000 =>
              /\ Len(df_result) = 2001
              /\ \A i \in 1..2000 : df_result[i] = df_text[i]
              /\ df_result[2001] = truncation_marker(Len(df_text))
        /\ Len(DiffPortion) <= 2000
        /\ DiffPortion = SubSeq(df_text, 1, Len(DiffPortion))

\* a diff of 2001 characters has been cut to 2000 and the marker
C30_Witness ==
    /\ df_pc = "returned"
    /\ Len(df_text) = 2001
    /\ Len(DiffPortion) = 2000
    /\ df_result[Len(df_result)] = truncation_marker(2001)

\* the summary email and the error notification of the run, as sent
SummaryEmail ==
    [notifier |-> "email", subject |-> "AUTOMATIZACION EP: detector de cambios url"]

ErrorNotification(n) == [notifier |-> n, subject |-> "Error detector de cambios url"]

\* the run has ended: with all the URLs processed, or in the exception
\* handler
RunEnded == um_pc = "idle" /\ um_runs >= 1
RunEndedNormally == RunEnded /\ um_idx = NumUrls + 1
RunEndedByException == RunEnded /\ um_idx <= NumUrls

\* C31: a run that ends without an exception has sent the summary email
\* once, as its last notification, after every URL was processed, changes
\* or not; a run that an exception ends has sent no summary email and, as
\* its last three notifications, the error to console, chat and email, once
\* each; while the run goes on no email is sent.
C31_SummaryEmailOrErrorNotifications ==
    /\ um_pc \in {"loop", "summary"} =>
          \A k \in 1..Len(um_sent) : um_sent[k].notifier # "email"
    /\ RunEndedNormally =>
          /\ Count(um_sent, SummaryEmail) = 1
          /\ um_sent[Len(um_sent)] = SummaryEmail
          /\ \A u \in Urls : Processed(u)
          /\ \A n \in {"console", "telegram", "email"} :
                Count(um_sent, ErrorNotification(n)) = 0
    /\ RunEndedByException =>
          /\ Count(um_sent, SummaryEmail) = 0
          /\ \A n \in {"console", "telegram", "email"} :
                Count(um_sent, ErrorNotification(n)) = 1
          /\ Len(um_sent) >= 3
          /\ SubSeq(um_sent, Len(um_sent) - 2, Len(um_sent)) =
                << ErrorNotification("console"), ErrorNotification("telegram"),
                   ErrorNotification("email") >>

\* a second run that found a change and ended with its summary email
C31_Witness ==
    /\ RunEndedNormally
    /\ um_runs = 2
    /\ changes_detected
    /\ Count(um_sent, SummaryEmail) = 1
    /\ um_sent[Len(um_sent)] = SummaryEmail

\* a run that an exception ended
C31_ExceptionCase ==
    /\ RunEndedByException
    /\ Count(um_sent, ErrorNotification("email")) = 1

\* ---- the size of the posted texts

\* the limit of the chat channel for one text
TelegramLimit == 4096

\* len of the "text" of a post: the chunk, under its header when there is one
PostedLength(ev) ==
    IF ev.header THEN chunk_header(ev.part, ev.of) + text_len(ev.chunk)
    ELSE text_len(ev.chunk)

\* C32: every text posted by send_message, the chunk with its "Parte i/n"
\* header, is at most 4096 characters long, for every subject, body and
\* metadata.
C32_PostedWithinLimit ==
    \A k \in Posts : PostedLength(tg_trace[k]) <= TelegramLimit

\* when no line of the message is longer than the budget, every posted text
\* is within the limit
C32_WithinLimitWithoutLongWords ==
    (tg_args # << >> /\ \A j \in 1..Len(tg_args[1].message) :
                          tg_args[1].message[j] <= ScenarioD.max_length)
      => \A k \in Posts : PostedLength(tg_trace[k]) <= TelegramLimit

\* ---- fingerprint and snapshots

\* every run so far read a timestamp of its own
DistinctTimestamps == um_clock = um_runs

\* the snapshot files of u that hold text
NonEmptySnapshots(u) == SelectSeq(snapshots[u], LAMBDA f : f.text # "")

\* the stored fingerprint of u, if any, is the SHA-256 of the most recent
\* non-empty snapshot file of u
FingerprintOfLatestSnapshot(u) ==
    hash_file[u] # NoFile =>
        /\ NonEmptySnapshots(u) # << >>
        /\ hash_file[u] = sha256(NonEmptySnapshots(u)[Len(NonEmptySnapshots(u))].text)

\* every diff of the run has, as its old side, the text whose hash was the
\* stored fingerprint when the run started
DiffFromFingerprintedText ==
    \A k \in 1..Len(change_details) :
        change_details[k].diff # << >> =>
            sha256(change_details[k].diff[1].old) = um_prev.hash_file[change_details[k].url]

\* C33: at the end of every run of a sequence of runs with distinct
\* timestamps, a stored fingerprint is the SHA-256 of the most recent
\* non-empty snapshot file of its URL, and a diff computed on a changed
\* outcome starts from the text that had the stored fingerprint.
C33_FingerprintMatchesSnapshot ==
    (RunEnded /\ DistinctTimestamps) =>
        /\ \A u \in Urls : FingerprintOfLatestSnapshot(u)
        /\ DiffFromFingerprintedText

\* an iteration that ends without an exception keeps the fingerprint of
\* its URL in step with the snapshots, and its diff, if any, starts from
\* the text of the fingerprint
C33_KeptWhenNoFileOperationFails ==
    [][\A u \in Urls :
         (um_pc = "loop" /\ um_idx = u /\ um_idx' = u + 1 /\ DistinctTimestamps
            /\ FingerprintOfLatestSnapshot(u))
         => /\ FingerprintOfLatestSnapshot(u)'
            /\ \A k \in Len(change_details) + 1 .. Len(change_details') :
                 change_details'[k].diff # << >> =>
                     sha256(change_details'[k].diff[1].old) = hash_file[u]]_vars

\* the second run of a URL found a change and its diff, the first one
\* having stored the fingerprint
C33_ChangedWithDiff ==
    /\ RunEndedNormally /\ DistinctTimestamps /\ um_runs = 2
    /\ \E k \in 1..Len(change_details) : change_details[k].diff # << >>
    /\ \A u \in Urls : FingerprintOfLatestSnapshot(u)

\* ---- a failed fetch

\* the iteration of URL u in this step: the download failed (and makedirs,
\* before it, had not raised)
FailedFetchStep(u) ==
    /\ um_pc = "loop" /\ um_idx = u
    /\ um_fetched'[u] = FetchError
    /\ um_pc' # "idle"

\* C34: a failed fetch leaves the URL's snapshot files, fingerprint file and
\* change log as they were; the URL is recorded as an error and the loop
\* goes on to the next URL.
C34_FailedFetchWritesNothing ==
    [][\A u \in Urls :
         FailedFetchStep(u) =>
            /\ snapshots' = snapshots
            /\ hash_file' = hash_file
            /\ log_file' = log_file
            /\ fs_ops' = fs_ops
            /\ error_pages' = Append(error_pages, URL_TITLES[u])
            /\ body' = Append(body, [title |-> URL_TITLES[u],
                                     msg |-> "Error al descargar contenido"])
            /\ um_idx' = u + 1
            /\ um_pc' = IF u = NumUrls THEN "summary" ELSE "loop"
            /\ um_sent' = um_sent
            /\ UNCHANGED << changed_pages, first_time_pages, unchanged_pages,
                            changes_detected, change_details >>]_vars

\* the download of a URL that has a fingerprint and a snapshot failed in
\* the second run: the URL is among the errors and no file was written
C34_Witness ==
    /\ um_runs = 2
    /\ um_pc \in {"loop", "summary", "idle"}
    /\ um_idx = 2
    /\ um_fetched[1] = FetchError
    /\ hash_file[1] # NoFile
    /\ snapshots[1] # << >>
    /\ error_pages = << URL_TITLES[1] >>
    /\ fs_ops = << >>

\* ---- the counts of run

\* the sources that run has counted under the given heading
CountedAs(heading) == { i \in 1..Len(Sources) : src[i].counted = heading }

\* run is in its loop, or has returned
InRun == ep_pc \in {"loop", "check", "discover", "extract", "analyze"}
RunReturned == ep_pc = "exited" /\ exit_code = << 0 >>

\* C35: at the end of run, sources_processed + sources_skipped is the
\* number of configured sources, each source counted exactly once, whatever
\* the schedule answered and whichever sources failed.  (In the loop the
\* sources before the current one are the counted ones.)
C35_EverySourceCountedOnce ==
    /\ (InRun \/ RunReturned) =>
          /\ sources_processed = Cardinality(CountedAs("processed"))
          /\ sources_skipped = Cardinality(CountedAs("skipped"))
          /\ CountedAs("processed") \cup CountedAs("skipped") = 1..(mon_idx - 1)
    /\ RunReturned =>
          /\ sources_processed + sources_skipped = Len(Sources)
          /\ \A i \in 1..Len(Sources) : src[i].counted \in {"processed", "skipped"}

\* run has returned with sources skipped, completed and failed
C35_Witness ==
    /\ RunReturned
    /\ sources_skipped >= 1
    /\ \E i \in 1..Len(Sources) : src[i].status = "Failed"
    /\ \E i \in 1..Len(Sources) : src[i].status = "Completed"
    /\ sources_processed + sources_skipped = Len(Sources)

\* ---- empty chunks

\* C36: _split_message never returns an empty chunk: every chunk of a
\* message longer than the budget holds at least one character, also when
\* the message has blank lines next to a flush, and no empty chunk is
\* posted.
C36_NoEmptyChunk ==
    /\ \A i \in 1..Len(tg_chunks) :
          Len(tg_chunks) > 1 => text_len(tg_chunks[i]) >= 1
    /\ \A k \in Posts : text_len(tg_trace[k].chunk) >= 1

\* an empty chunk comes only from blank lines that a flush has left on
\* their own: a message without blank lines in its body has none
C36_NoEmptyChunkWithoutBlankLines ==
    (tg_args # << >> /\ \A j \in 1..Len(tg_args[1].message) : tg_args[1].message[j] > 0)
      => \A i \in 1..Len(tg_chunks) : text_len(tg_chunks[i]) >= 1

\* ---- run ends

\* source i is in a terminal state
Terminal(i) == src[i].status \in {"Skipped", "Completed", "Failed"}

\* run has returned and every configured source is in a terminal state
RunFinished == RunReturned /\ \A i \in 1..Len(Sources) : Terminal(i)

\* in the loop and after it, the sources before the current one are in a
\* terminal state and the sources after it have not been started
SourcesInOrder ==
    (InRun \/ RunReturned) =>
        \A i \in 1..Len(Sources) :
            /\ i < mon_idx => Terminal(i)
            /\ i > mon_idx => src[i].status = "Pending"

\* a step changes the state of the current source only, and the loop moves
\* on by one source, when the current one has reached a terminal state
OneSourceAtATime ==
    /\ \A i \in 1..Len(Sources) : src'[i].status # src[i].status => i = mon_idx
    /\ mon_idx' # mon_idx => mon_idx' = mon_idx + 1
    /\ \A i \in 1..Len(Sources) :
          (i = mon_idx /\ mon_idx' # mon_idx) => Terminal(i)'

\* C37: when the external calls return or fail, run, once started, ends
\* with every configured source Skipped, Completed or Failed; the sources
\* are handled one at a time in configuration order, none started before
\* the one before it has reached its terminal state.
C37_RunTerminatesInOrder ==
    /\ [] SourcesInOrder
    /\ [][OneSourceAtATime]_vars
    /\ (InRun ~> RunFinished)

\* run has ended, the last source having run to its end after the sources
\* before it
C37_Witness ==
    /\ RunFinished
    /\ mon_idx = Len(Sources) + 1
    /\ ps = NoCall
    /\ Ended(Len(Sources))
    /\ \E i \in 1..(Len(Sources) - 1) : Ended(i)

====
